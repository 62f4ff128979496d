--------------------------- MODULE TerminalSessions ---------------------------
(***************************************************************************)
(* The interactive shell of an edge node (control/terminal.go,             *)
(* edge/terminal.go): an administrator's browser, the goroutine of the     *)
(* session and the handlers of the agents' connections on the controller,  *)
(* the reader of a connection and the goroutine of the shell on the edge,  *)
(* and the rows of terminal_sessions.  Connections are ordered queues      *)
(* that may break at any moment.                                           *)
(***************************************************************************)
EXTENDS Naturals, Sequences, FiniteSets

CONSTANTS
  Consoles,          \* edge nodes
  Terminals,         \* ids of sessions
  MaxWires,          \* bound: connections that agents make
  MaxTerminalFaults  \* bound: kills, failed writes and commands

ASSUME TerminalAssumption ==
  /\ "none" \notin Consoles \union Terminals
  /\ {MaxWires, MaxTerminalFaults} \subseteq Nat

Wires == 1..MaxWires

VARIABLES
  audit,      \* rows of terminal_sessions
  live,       \* hub.sessions, with the session's own variables
  hubClosed,  \* hub.closed
  peers,      \* the connection of a node, 0 none (hub.peers)
  wires,      \* both ends of a connection, and what is under way
  shell,      \* the shell of a node
  cutShort,   \* history: rows closed by a command while the session was running
  unrecorded, \* history: rows whose end could not be written
  refused,    \* history: an agent was told to start a second shell
  hitches     \* faults so far

terminalVars == <<audit, live, hubClosed, peers, wires, shell, cutShort, unrecorded, refused, hitches>>

NoTerminal == [at |-> "none", node |-> "none", peer |-> 0, browser |-> "no", stop |-> FALSE, started |-> FALSE]
NoShell == [at |-> "none", id |-> "none"]
NoWire == [node |-> "none", edge |-> FALSE, handler |-> "none", broken |-> FALSE,
           down |-> <<>>, up |-> <<>>]

InHub(s) == live[s].at \notin {"none", "gone"}
OpenRow(s) == audit[s].status \in {"pending", "running"}
Message(kind, s) == [kind |-> kind, id |-> s]

\* A write to a broken connection is lost.
SentDown(k, m) == [wires EXCEPT ![k].down = IF wires[k].broken THEN @ ELSE Append(@, m)]
SentUp(k, m) == [wires EXCEPT ![k].up = IF wires[k].broken THEN @ ELSE Append(@, m)]

Hitch == hitches < MaxTerminalFaults /\ hitches' = hitches + 1

-----------------------------------------------------------------------------
(* The session on the controller *)

\* The node has an agent, no session, and no open row (a unique index).
MayCreate(n) ==
  /\ ~hubClosed /\ peers[n] # 0
  /\ \A s \in Terminals : ~(InHub(s) /\ live[s].node = n) /\ ~(OpenRow(s) /\ audit[s].node = n)

CreateTerminal(s, n) ==
  /\ live[s].at = "none" /\ MayCreate(n)
  /\ audit' = [audit EXCEPT ![s] = [node |-> n, status |-> "pending"]]
  /\ live' = [live EXCEPT ![s] = [NoTerminal EXCEPT !.at = "run", !.node = n, !.peer = peers[n]]]
  /\ UNCHANGED <<hubClosed, peers, wires, shell, cutShort, unrecorded, refused, hitches>>

\* connectTerminalSession: one browser, once.
ConnectBrowser(s) ==
  /\ InHub(s) /\ live[s].browser = "no"
  /\ live' = [live EXCEPT ![s].browser = "waiting"]
  /\ UNCHANGED <<audit, hubClosed, peers, wires, shell, cutShort, unrecorded, refused, hitches>>

\* The browser goes away, sends nonsense, or the administrator ends the session.
AskToStop(s) ==
  /\ InHub(s) /\ ~live[s].stop
  /\ live' = [live EXCEPT ![s].stop = TRUE]
  /\ UNCHANGED <<audit, hubClosed, peers, wires, shell, cutShort, unrecorded, refused, hitches>>

\* The session's select sees the browser: the agent is told to start.
TakeBrowser(s) ==
  /\ live[s].at = "run" /\ live[s].browser = "waiting"
  /\ \/ /\ wires' = SentDown(live[s].peer, Message("start", s))
        /\ live' = [live EXCEPT ![s].browser = "attached"]
     \/ /\ wires[live[s].peer].broken /\ UNCHANGED wires
        /\ live' = [live EXCEPT ![s].at = "close", ![s].browser = "attached"]
  /\ UNCHANGED <<audit, hubClosed, peers, shell, cutShort, unrecorded, refused, hitches>>

\* Keys may be forwarded before the browser itself was taken.  At most one
\* message of them is under way.
ForwardInput(s) ==
  LET k == live[s].peer IN
  /\ live[s].at = "run" /\ live[s].browser # "no"
  /\ \A i \in DOMAIN wires[k].down : wires[k].down[i].kind # "input"
  /\ wires' = SentDown(k, Message("input", s))
  /\ UNCHANGED <<audit, live, hubClosed, peers, shell, cutShort, unrecorded, refused, hitches>>

\* A stop was asked for, a limit has passed, the login or the node's permission
\* has ended, or a write to the browser or agent failed.
LeaveLoop(s) ==
  /\ live[s].at = "run"
  /\ live' = [live EXCEPT ![s].at = "close"]
  /\ UNCHANGED <<audit, hubClosed, peers, wires, shell, cutShort, unrecorded, refused, hitches>>

\* Mutant: the agent is not told.
NotTold(s) ==
  /\ live[s].at = "close"
  /\ live' = [live EXCEPT ![s].at = "record"]
  /\ UNCHANGED <<audit, hubClosed, peers, wires, shell, cutShort, unrecorded, refused, hitches>>

\* The deferred end: the agent, the row, the hub.
SendClose(s) ==
  /\ live[s].at = "close"
  /\ wires' = SentDown(live[s].peer, Message("close", s))
  /\ live' = [live EXCEPT ![s].at = "record"]
  /\ UNCHANGED <<audit, hubClosed, peers, shell, cutShort, unrecorded, refused, hitches>>

\* EndTerminalSession; a failure is logged only.
RecordEnd(s) ==
  /\ live[s].at = "record"
  /\ live' = [live EXCEPT ![s].at = "remove"]
  /\ \/ /\ audit' = [audit EXCEPT ![s].status = "closed"]
        /\ UNCHANGED <<unrecorded, hitches>>
     \/ /\ Hitch /\ OpenRow(s)
        /\ unrecorded' = unrecorded \union {s} /\ UNCHANGED audit
  /\ UNCHANGED <<hubClosed, peers, wires, shell, cutShort, refused>>

RemoveTerminal(s) ==
  /\ live[s].at = "remove"
  /\ live' = [live EXCEPT ![s].at = "gone"]
  /\ UNCHANGED <<audit, hubClosed, peers, wires, shell, cutShort, unrecorded, refused, hitches>>

\* ShutdownTerminals
ShutDown ==
  /\ ~hubClosed /\ hubClosed' = TRUE
  /\ live' = [s \in Terminals |-> IF InHub(s) THEN [live[s] EXCEPT !.stop = TRUE] ELSE live[s]]
  /\ UNCHANGED <<audit, peers, wires, shell, cutShort, unrecorded, refused, hitches>>

-----------------------------------------------------------------------------
(* An agent's connection on the controller *)

\* edgeTerminal after the hello; an earlier connection of the node is closed.
AcceptAgent(k) ==
  LET n == wires[k].node before == peers[n] IN
  /\ wires[k].handler = "none" /\ wires[k].node # "none"
  /\ IF hubClosed
     THEN /\ wires' = [wires EXCEPT ![k].handler = "ended", ![k].broken = TRUE]
          /\ UNCHANGED peers
     ELSE /\ wires' = [j \in Wires |->
                         IF j = k THEN [wires[k] EXCEPT !.handler = "runs"]
                         ELSE IF j = before THEN [wires[j] EXCEPT !.broken = TRUE] ELSE wires[j]]
          /\ peers' = [peers EXCEPT ![n] = k]
  /\ UNCHANGED <<audit, live, hubClosed, shell, cutShort, unrecorded, refused, hitches>>

\* StartTerminalSession and the answer to the browser; a second "ready", one
\* without a browser, and a row that cannot be written end the session.
Ready(s) ==
  IF live[s].browser # "attached" \/ live[s].started
  THEN live' = [live EXCEPT ![s].at = "close"] /\ UNCHANGED <<audit, hitches>>
  ELSE \/ /\ live' = [live EXCEPT ![s].started = TRUE]
          /\ audit' = [audit EXCEPT ![s].status = IF OpenRow(s) THEN "running" ELSE @]
          /\ UNCHANGED hitches
       \/ /\ Hitch /\ live' = [live EXCEPT ![s].at = "close", ![s].started = TRUE]
          /\ UNCHANGED audit

\* What the agent says, to the session of the hub that has this connection.
HearAgent(k) ==
  LET m == Head(wires[k].up) s == m.id IN
  /\ wires[k].handler = "runs" /\ wires[k].up # <<>>
  /\ wires' = [wires EXCEPT ![k].up = Tail(@)]
  /\ IF ~(live[s].at = "run" /\ live[s].peer = k)
     THEN UNCHANGED <<audit, live, hitches>>
     ELSE \/ m.kind = "ready" /\ Ready(s)
          \/ m.kind = "exit" /\ live' = [live EXCEPT ![s].at = "close"] /\ UNCHANGED <<audit, hitches>>
          \/ /\ m.kind = "output" /\ UNCHANGED <<audit, hitches>>
             /\ live' = [live EXCEPT ![s].at =
                           IF live[s].browser = "attached" /\ live[s].started THEN @ ELSE "close"]
  /\ UNCHANGED <<hubClosed, peers, shell, cutShort, unrecorded, refused>>

\* Mutant: the entry of a later connection is removed too.
ForgetNode(k) == [peers EXCEPT ![wires[k].node] = 0]

\* Only its own entry.
WithoutPeer(k) == [n \in Consoles |-> IF peers[n] = k THEN 0 ELSE peers[n]]

\* Mutant: the sessions find out for themselves.
LeaveSessions(k) == live

\* The sessions of a connection are told that it has ended.
ToldSessions(k) ==
  [s \in Terminals |-> IF InHub(s) /\ live[s].peer = k THEN [live[s] EXCEPT !.stop = TRUE] ELSE live[s]]

AgentGone(k) ==
  /\ wires[k].handler = "runs" /\ wires[k].broken
  /\ wires' = [wires EXCEPT ![k].handler = "ended"]
  /\ peers' = WithoutPeer(k) /\ live' = ToldSessions(k)
  /\ UNCHANGED <<audit, hubClosed, shell, cutShort, unrecorded, refused, hitches>>

\* The network, the keepalive, or the handler because the node was revoked.
BreakWire(k) ==
  /\ wires[k].node # "none" /\ ~wires[k].broken
  /\ wires' = [wires EXCEPT ![k].broken = TRUE]
  /\ UNCHANGED <<audit, live, hubClosed, peers, shell, cutShort, unrecorded, refused, hitches>>

-----------------------------------------------------------------------------
(* The edge *)

OnEdge(n, k) == wires[k].node = n /\ wires[k].edge

Dial(n, k) ==
  /\ \A j \in Wires : ~OnEdge(n, j)
  /\ wires[k] = NoWire /\ \A j \in Wires : j < k => wires[j] # NoWire
  /\ wires' = [wires EXCEPT ![k] = [NoWire EXCEPT !.node = n, !.edge = TRUE]]
  /\ UNCHANGED <<audit, live, hubClosed, peers, shell, cutShort, unrecorded, refused, hitches>>

\* The reader returns: its shell is closed with it.
HangUp(n, k) ==
  /\ OnEdge(n, k) /\ wires[k].broken
  /\ wires' = [wires EXCEPT ![k].edge = FALSE]
  /\ shell' = [shell EXCEPT ![n] = NoShell]
  /\ UNCHANGED <<audit, live, hubClosed, peers, cutShort, unrecorded, refused, hitches>>

StartShell(n, k, s) ==
  \/ /\ shell[n].at = "none"
     /\ shell' = [shell EXCEPT ![n] = [at |-> "starting", id |-> s]]
     /\ wires' = [wires EXCEPT ![k].down = Tail(@)]
     /\ UNCHANGED refused
  \/ /\ shell[n].at = "none" /\ UNCHANGED <<shell, refused>>
     /\ wires' = [wires EXCEPT ![k].down = Tail(@),
                               ![k].up = IF wires[k].broken THEN @ ELSE Append(@, Message("exit", s))]
  \/ /\ shell[n].at # "none" /\ refused' = TRUE
     /\ shell' = [shell EXCEPT ![n] = NoShell]
     /\ wires' = [wires EXCEPT ![k].edge = FALSE, ![k].broken = TRUE]

\* terminalConnection: the next message.
HearController(n, k) ==
  LET m == Head(wires[k].down) IN
  /\ OnEdge(n, k) /\ wires[k].down # <<>>
  /\ \/ m.kind = "start" /\ StartShell(n, k, m.id)
     \/ /\ m.kind # "start" /\ UNCHANGED refused
        /\ shell' = IF m.kind = "close" /\ shell[n].id = m.id
                    THEN [shell EXCEPT ![n] = NoShell] ELSE shell
        /\ wires' = [wires EXCEPT ![k].down = Tail(@)]
  /\ UNCHANGED <<audit, live, hubClosed, peers, cutShort, unrecorded, hitches>>

\* The goroutine of the shell: ready, output, exit, and its processes killed.
ShellSays(n, k, from, to, kind) ==
  /\ OnEdge(n, k) /\ shell[n].at = from
  /\ wires' = SentUp(k, Message(kind, shell[n].id))
  /\ shell' = [shell EXCEPT ![n].at = to]
  /\ UNCHANGED <<audit, live, hubClosed, peers, cutShort, unrecorded, refused, hitches>>

\* At most one message of output is under way.
ShellSteps(n, k) ==
  \/ ShellSays(n, k, "starting", "open", "ready")
  \/ /\ \A i \in DOMAIN wires[k].up : wires[k].up[i].kind # "output"
     /\ ShellSays(n, k, "open", "open", "output") \/ ShellSays(n, k, "leaving", "leaving", "output")
  \/ ShellSays(n, k, "open", "leaving", "exit")

ShellEnds(n) ==
  /\ shell[n].at = "leaving" /\ shell' = [shell EXCEPT ![n] = NoShell]
  /\ UNCHANGED <<audit, live, hubClosed, peers, wires, cutShort, unrecorded, refused, hitches>>

-----------------------------------------------------------------------------

\* Mutant: open rows are left as they are.
KeepRows == audit

\* RecoverTerminalSessions
RecoveredRows == [s \in Terminals |-> IF OpenRow(s) THEN [audit[s] EXCEPT !.status = "closed"] ELSE audit[s]]

RestartTerminals ==
  /\ Hitch
  /\ live' = [s \in Terminals |-> IF InHub(s) THEN [live[s] EXCEPT !.at = "gone"] ELSE live[s]]
  /\ hubClosed' = FALSE /\ peers' = [n \in Consoles |-> 0]
  /\ wires' = [k \in Wires |-> IF wires[k].node = "none" THEN wires[k]
                               ELSE [wires[k] EXCEPT !.broken = TRUE, !.handler = "ended"]]
  /\ audit' = RecoveredRows /\ unrecorded' = {}
  /\ UNCHANGED <<shell, cutShort, refused>>

\* Every process that opens the database recovers it, a command such as
\* publish-all while the controller is running too.
CommandOpens ==
  /\ Hitch /\ audit' = RecoveredRows
  /\ cutShort' = cutShort \union {s \in Terminals : OpenRow(s)} /\ unrecorded' = {}
  /\ UNCHANGED <<live, hubClosed, peers, wires, shell, refused>>

TerminalInit ==
  /\ audit = [s \in Terminals |-> [node |-> "none", status |-> "none"]]
  /\ live = [s \in Terminals |-> NoTerminal]
  /\ hubClosed = FALSE /\ peers = [n \in Consoles |-> 0]
  /\ wires = [k \in Wires |-> NoWire] /\ shell = [n \in Consoles |-> NoShell]
  /\ cutShort = {} /\ unrecorded = {} /\ refused = FALSE /\ hitches = 0

TerminalNext ==
  \/ \E s \in Terminals :
       \/ \E n \in Consoles : CreateTerminal(s, n)
       \/ ConnectBrowser(s) \/ AskToStop(s) \/ TakeBrowser(s) \/ ForwardInput(s) \/ LeaveLoop(s)
       \/ SendClose(s) \/ RecordEnd(s) \/ RemoveTerminal(s)
  \/ \E k \in Wires : AcceptAgent(k) \/ HearAgent(k) \/ AgentGone(k) \/ BreakWire(k)
  \/ \E n \in Consoles, k \in Wires :
       Dial(n, k) \/ HangUp(n, k) \/ HearController(n, k) \/ ShellSteps(n, k)
  \/ \E n \in Consoles : ShellEnds(n)
  \/ ShutDown \/ RestartTerminals \/ CommandOpens

TerminalSpec == TerminalInit /\ [][TerminalNext]_terminalVars

-----------------------------------------------------------------------------
(* Properties *)

TerminalTypeOK ==
  /\ audit \in [Terminals -> [node : Consoles \union {"none"},
                              status : {"none", "pending", "running", "closed"}]]
  /\ live \in [Terminals ->
       [at : {"none", "run", "close", "record", "remove", "gone"}, node : Consoles \union {"none"},
        peer : Wires \union {0}, browser : {"no", "waiting", "attached"}, stop : BOOLEAN,
        started : BOOLEAN]]
  /\ hubClosed \in BOOLEAN /\ peers \in [Consoles -> Wires \union {0}]
  /\ shell \in [Consoles -> [at : {"none", "starting", "open", "leaving"},
                             id : Terminals \union {"none"}]]
  /\ cutShort \subseteq Terminals /\ unrecorded \subseteq Terminals

\* A row is open exactly as long as its session, unless the end could not be
\* written or a command closed it.
RowsFollowSessions ==
  \A s \in Terminals :
    /\ OpenRow(s) => live[s].at \in {"run", "close", "record"} \/ s \in unrecorded
    /\ live[s].at \in {"run", "close", "record"} => OpenRow(s) \/ s \in cutShort

\* A node has one session, and its agent is never told to start a second shell.
OneShell ==
  /\ ~refused
  /\ \A s, t \in Terminals : InHub(s) /\ InHub(t) /\ live[s].node = live[t].node => s = t

\* A connection that is being read is the one on which sessions are created, or
\* has been replaced; a session whose connection has ended is told.
PeersKnown ==
  /\ \A k \in Wires : wires[k].handler = "runs" => wires[k].broken \/ peers[wires[k].node] = k
  /\ \A s \in Terminals :
       live[s].at = "run" /\ wires[live[s].peer].handler = "ended" => live[s].stop

\* A shell does not outlive its session, except until the edge reads that it has
\* ended or notices that the connection is broken.
ShellFollowsSession ==
  \A n \in Consoles, k \in Wires :
    OnEdge(n, k) /\ shell[n].at \in {"starting", "open"} =>
      \/ wires[k].broken
      \/ live[shell[n].id].at \in {"run", "close"} /\ live[shell[n].id].peer = k
      \/ \E i \in DOMAIN wires[k].down : wires[k].down[i] = Message("close", shell[n].id)

\* Sessions, rows, connections and shells agree (control/terminal.go).
TerminalsHold ==
  TerminalTypeOK /\ RowsFollowSessions /\ OneShell /\ PeersKnown /\ ShellFollowsSession
=============================================================================
