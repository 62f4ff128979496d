----------------------------- MODULE RolloutProofs -----------------------------
(* Theorems about what is rolled out to the edges: policies, for every set of  *)
(* nodes, administrators and rules, and cache operations, for every set of     *)
(* edges, pages and scopes.                                                    *)
EXTENDS PolicyRollout, CacheOperations, TLAPS, FiniteSetTheorems, SequenceTheorems
LOCAL INSTANCE SequencesExt

-------------------------------------------------------------------------------
(* The inductive invariant *)

Rule == [id : RuleIds, on : BOOLEAN]
Tables == [chain : Seq(Rule), challenge : Nat, limit : Nat]
Levels == [Enforcers -> 0..2]
Bodies == {Rendered(l, t) : l \in 0..2, t \in Tables}

Renderings ==
  {NotRendering, [at |-> "nodes"]}
  \union [at : {"rules"}, level : Levels]
  \union [at : {"challenges"}, level : Levels, chain : Seq(Rule)]
  \union [at : {"limits"}, level : Levels, chain : Seq(Rule), challenge : Nat]
  \union [at : {"save"}, level : Levels, tables : Tables]

Views ==
  {[at |-> "idle"]}
  \union [at : {"nodes"}, tables : Tables]
  \union [at : {"version"}, tables : Tables, node : Enforcers, level : 0..2, applied : Nat]
  \union [at : {"state"}, tables : Tables, node : Enforcers, level : 0..2, applied : Nat,
          version : Nat]

Shapes ==
  /\ rules \in Tables /\ level \in Levels /\ applied \in [Enforcers -> Nat]
  /\ desired \in [Enforcers -> [version : Nat, body : Bodies, for : 0..2]]
  /\ agent \in [Enforcers -> [level : 0..2, version : Nat, body : Bodies]]
  /\ upgrading \subseteq Enforcers
  /\ request \in [Authors -> {"idle", "publish"}]
  /\ beats \in [Enforcers -> {"idle", "check", "publish"}]
  /\ rendering \in [Workers -> Renderings] /\ viewer \in Views
  /\ shown \in [Enforcers -> [ready : BOOLEAN, between : BOOLEAN, runs : BOOLEAN]]
  /\ unsettled \in BOOLEAN /\ counts \in [saves : Nat, agents : Nat, hindrances : Nat]

Distinct(chain) == \A i, j \in DOMAIN chain : chain[i].id = chain[j].id => i = j
NoTwice == Distinct(rules.chain)

\* What is stored of a node, what it has, what it should have.
InOrder ==
  \A n \in Enforcers : applied[n] <= agent[n].version /\ agent[n].version <= desired[n].version

\* desiredStateMu
OneRendering ==
  \A v, w \in Workers : rendering[v] # NotRendering /\ rendering[w] # NotRendering => v = w
RenderingWanted == \A w \in Workers : rendering[w] # NotRendering => Wants(w)

\* What a publication has read is current, or another request will publish.
OthersPublish(w) == \E a \in Authors \ {w} : request[a] = "publish"
ReadsCurrent(r) ==
  /\ r.at \in {"challenges", "limits"} => r.chain = rules.chain
  /\ r.at = "limits" => r.challenge = rules.challenge
  /\ r.at = "save" => r.tables = rules
ReadingsCurrent == \A w \in Workers : OthersPublish(w) \/ ReadsCurrent(rendering[w])

\* The state of a node is that of the tables for the agent it was rendered for.
Waiting == unsettled \/ \E a \in Authors : request[a] # "idle"
StatesCurrent ==
  \A n \in Enforcers : desired[n].body = Rendered(desired[n].for, rules) \/ Waiting
ModernForModern == \A n \in Enforcers : desired[n].body.modern = (desired[n].for = 2)

\* A version names one state.
LoadedAsDesired ==
  \A n \in Enforcers : agent[n].version = desired[n].version => agent[n].body = desired[n].body

\* The version an overview has read of a node is one that the node has reached.
ViewReached ==
  viewer.at \in {"version", "state"} => viewer.applied <= agent[viewer.node].version

RulesInv ==
  /\ Shapes /\ NoTwice /\ InOrder /\ OneRendering /\ RenderingWanted /\ ReadingsCurrent
  /\ StatesCurrent /\ ModernForModern /\ LoadedAsDesired /\ ViewReached /\ ShownIsLoaded

-------------------------------------------------------------------------------
(* The chain of rules *)

\* What a rule put into a chain, or taken out of it, leaves of the others.
LEMMA InsertionShifts ==
    ASSUME NEW chain \in Seq(Rule), NEW i \in 1..(Len(chain) + 1), NEW r \in Rule
    PROVE  /\ InsertAt(chain, i, r) \in Seq(Rule)
           /\ Len(InsertAt(chain, i, r)) = Len(chain) + 1
           /\ \A k \in 1..(Len(chain) + 1) :
                InsertAt(chain, i, r)[k] =
                  IF k < i THEN chain[k] ELSE IF k = i THEN r ELSE chain[k - 1]
<1> DEFINE before == SubSeq(chain, 1, i - 1)
           after == SubSeq(chain, i, Len(chain))
<1>1. Len(chain) \in Nat /\ \A k \in 1..Len(chain) : chain[k] \in Rule
  BY LenProperties, ElementOfSeq
<1>2. /\ before \in Seq(Rule) /\ Len(before) = i - 1
      /\ \A k \in 1..(i - 1) : before[k] = chain[k]
  BY <1>1, SubSeqProperties
<1>3. /\ after \in Seq(Rule) /\ Len(after) = Len(chain) - i + 1
      /\ \A k \in 1..(Len(chain) - i + 1) : after[k] = chain[i + k - 1]
  BY <1>1, SubSeqProperties
<1> HIDE DEF before, after
<1>4. <<r>> \in Seq(Rule) /\ Len(<<r>>) = 1 /\ <<r>>[1] = r
  OBVIOUS
<1> DEFINE head == before \o <<r>>
           all == head \o after
<1>5. head \in Seq(Rule) /\ Len(head) = i
  <2>1. head \in Seq(Rule) /\ Len(head) = Len(before) + Len(<<r>>)
    BY <1>2, <1>4, ConcatProperties
  <2> HIDE DEF head
  <2> QED BY <2>1, <1>1, <1>2, <1>4
<1>6. ASSUME NEW k \in 1..i PROVE head[k] = IF k < i THEN chain[k] ELSE r
  <2>1. \A m \in 1..(Len(before) + Len(<<r>>)) :
          head[m] = IF m <= Len(before) THEN before[m] ELSE <<r>>[m - Len(before)]
    BY <1>2, <1>4, ConcatProperties
  <2>2. head[k] = IF k <= i - 1 THEN before[k] ELSE <<r>>[k - (i - 1)]
    BY <2>1, <1>1, <1>2, <1>4
  <2> HIDE DEF head
  <2> QED BY <2>2, <1>1, <1>2, <1>4
<1> HIDE DEF head
<1>7. /\ all \in Seq(Rule) /\ Len(all) = Len(head) + Len(after)
      /\ \A k \in 1..(Len(head) + Len(after)) :
           all[k] = IF k <= Len(head) THEN head[k] ELSE after[k - Len(head)]
  BY <1>3, <1>5, ConcatProperties
<1> HIDE DEF all
<1>8. Len(all) = Len(chain) + 1
  BY <1>1, <1>3, <1>5, <1>7
<1>9. ASSUME NEW k \in 1..(Len(chain) + 1)
      PROVE  all[k] = IF k < i THEN chain[k] ELSE IF k = i THEN r ELSE chain[k - 1]
  <2>1. CASE k <= i
    BY <2>1, <1>1, <1>3, <1>5, <1>6, <1>7
  <2>2. CASE k > i
    <3>1. k - i \in 1..(Len(chain) - i + 1) /\ i + (k - i) - 1 = k - 1
      BY <2>2, <1>1
    <3>2. after[k - i] = chain[k - 1]
      BY <3>1, <1>3
    <3>3. all[k] = after[k - i]
      BY <2>2, <1>1, <1>3, <1>5, <1>7
    <3> QED BY <2>2, <3>2, <3>3, <1>1
  <2> QED BY <2>1, <2>2, <1>1
<1>10. InsertAt(chain, i, r) = all
  BY DEF InsertAt, before, after, head, all
<1> QED BY <1>7, <1>8, <1>9, <1>10

LEMMA RemovalShifts ==
    ASSUME NEW chain \in Seq(Rule), NEW i \in 1..Len(chain)
    PROVE  /\ RemoveAt(chain, i) \in Seq(Rule)
           /\ Len(RemoveAt(chain, i)) = Len(chain) - 1
           /\ \A k \in 1..(Len(chain) - 1) :
                RemoveAt(chain, i)[k] = IF k < i THEN chain[k] ELSE chain[k + 1]
<1> DEFINE before == SubSeq(chain, 1, i - 1)
           after == SubSeq(chain, i + 1, Len(chain))
<1>1. Len(chain) \in Nat /\ \A k \in 1..Len(chain) : chain[k] \in Rule
  BY LenProperties, ElementOfSeq
<1>2. /\ before \in Seq(Rule) /\ Len(before) = i - 1
      /\ \A k \in 1..(i - 1) : before[k] = chain[k]
  BY <1>1, SubSeqProperties
<1>3. /\ after \in Seq(Rule) /\ Len(after) = Len(chain) - i
      /\ \A k \in 1..(Len(chain) - i) : after[k] = chain[i + k]
  <2>1. /\ after \in Seq(Rule)
        /\ Len(after) = IF i + 1 <= Len(chain) THEN Len(chain) - (i + 1) + 1 ELSE 0
        /\ \A k \in 1..(Len(chain) - (i + 1) + 1) : after[k] = chain[(i + 1) + k - 1]
    BY <1>1, SubSeqProperties
  <2> HIDE DEF after, Rule
  <2> QED BY <2>1, <1>1
<1> HIDE DEF before, after
<1> DEFINE all == before \o after
<1>4. /\ all \in Seq(Rule) /\ Len(all) = Len(before) + Len(after)
      /\ \A k \in 1..(Len(before) + Len(after)) :
           all[k] = IF k <= Len(before) THEN before[k] ELSE after[k - Len(before)]
  BY <1>2, <1>3, ConcatProperties
<1> HIDE DEF all
<1>5. Len(all) = Len(chain) - 1
  BY <1>1, <1>2, <1>3, <1>4
<1>6. ASSUME NEW k \in 1..(Len(chain) - 1)
      PROVE  all[k] = IF k < i THEN chain[k] ELSE chain[k + 1]
  <2>1. CASE k < i
    <3>1. k \in 1..(i - 1) /\ k \in 1..(Len(before) + Len(after)) /\ k <= Len(before)
      BY <2>1, <1>1, <1>2, <1>3
    <3> QED BY <2>1, <3>1, <1>2, <1>4
  <2>2. CASE k >= i
    <3>1. k - (i - 1) \in 1..(Len(chain) - i) /\ i + (k - (i - 1)) = k + 1
      BY <2>2, <1>1
    <3>2. after[k - (i - 1)] = chain[k + 1]
      BY <3>1, <1>3
    <3>3. k \in 1..(Len(before) + Len(after)) /\ ~(k <= Len(before)) /\ Len(before) = i - 1
      BY <2>2, <1>1, <1>2, <1>3
    <3>4. all[k] = after[k - (i - 1)]
      BY <3>3, <1>4
    <3> QED BY <2>2, <3>2, <3>4, <1>1
  <2> QED BY <2>1, <2>2, <1>1
<1>7. RemoveAt(chain, i) = all
  BY DEF RemoveAt, before, after, all
<1> QED BY <1>4, <1>5, <1>6, <1>7

\* Every change of the chain leaves each rule in it once.
LEMMA ChangesKeepIds ==
    ASSUME NEW chain \in Seq(Rule), Distinct(chain),
           NEW new \in Created(chain) \union Updated(chain) \union Deleted(chain)
                       \union Moved(chain)
    PROVE  new \in Seq(Rule) /\ Distinct(new)
<1>1. /\ Len(chain) \in Nat /\ DOMAIN chain = 1..Len(chain)
      /\ \A k \in 1..Len(chain) : chain[k] \in Rule
  BY LenProperties, ElementOfSeq
<1>2. ASSUME NEW i \in 1..Len(chain)
      PROVE  /\ RemoveAt(chain, i) \in Seq(Rule) /\ Distinct(RemoveAt(chain, i))
             /\ \A k \in DOMAIN RemoveAt(chain, i) : RemoveAt(chain, i)[k].id # chain[i].id
  <2> DEFINE rest == RemoveAt(chain, i)
  <2>1. /\ rest \in Seq(Rule) /\ Len(rest) = Len(chain) - 1
        /\ \A k \in 1..(Len(chain) - 1) : rest[k] = IF k < i THEN chain[k] ELSE chain[k + 1]
    BY RemovalShifts
  <2> HIDE DEF rest
  <2>2. DOMAIN rest = 1..(Len(chain) - 1)
    BY <2>1, LenProperties
  <2> DEFINE place(k) == IF k < i THEN k ELSE k + 1
  <2>3. ASSUME NEW k \in DOMAIN rest
        PROVE  place(k) \in 1..Len(chain) /\ place(k) # i /\ rest[k] = chain[place(k)]
    BY <2>1, <2>2, <1>1
  <2>4. \A k, m \in DOMAIN rest : place(k) = place(m) => k = m
    BY <2>2, <1>1
  <2> HIDE DEF place
  <2>5. Distinct(rest) /\ \A k \in DOMAIN rest : rest[k].id # chain[i].id
    BY <2>3, <2>4, <1>1 DEF Distinct
  <2> QED BY <2>1, <2>5 DEF rest
<1>3. ASSUME NEW old \in Seq(Rule), Distinct(old), NEW i \in 1..(Len(old) + 1), NEW r \in Rule,
             \A k \in DOMAIN old : old[k].id # r.id
      PROVE  InsertAt(old, i, r) \in Seq(Rule) /\ Distinct(InsertAt(old, i, r))
  <2> DEFINE more == InsertAt(old, i, r)
  <2>1. /\ more \in Seq(Rule) /\ Len(more) = Len(old) + 1
        /\ \A k \in 1..(Len(old) + 1) :
             more[k] = IF k < i THEN old[k] ELSE IF k = i THEN r ELSE old[k - 1]
    BY <1>3, InsertionShifts
  <2> HIDE DEF more
  <2>2. DOMAIN more = 1..(Len(old) + 1) /\ DOMAIN old = 1..Len(old) /\ Len(old) \in Nat
    BY <2>1, LenProperties
  <2> DEFINE place(k) == IF k < i THEN k ELSE k - 1
  <2>3. ASSUME NEW k \in DOMAIN more
        PROVE  \/ k = i /\ more[k] = r
               \/ k # i /\ place(k) \in DOMAIN old /\ more[k] = old[place(k)]
    BY <2>1, <2>2
  <2>4. \A k, m \in DOMAIN more : k # i /\ m # i /\ place(k) = place(m) => k = m
    BY <2>2
  <2> HIDE DEF place
  <2>5. Distinct(more)
    BY <2>3, <2>4, <1>3 DEF Distinct
  <2> QED BY <2>1, <2>5 DEF more
<1>4. CASE new \in Created(chain)
  <2>1. PICK i \in 1..(Len(chain) + 1), r \in RuleIds \ Ids(chain) :
          new = InsertAt(chain, i, NewEntry(r))
    BY <1>4 DEF Created
  <2>2. NewEntry(r) \in Rule /\ \A k \in DOMAIN chain : chain[k].id # NewEntry(r).id
    BY <2>1 DEF Rule, Ids, Entry, NewEntry
  <2> QED BY <2>1, <2>2, <1>3
<1>5. CASE new \in Updated(chain)
  <2>1. PICK i \in DOMAIN chain, j \in DOMAIN chain, on \in BOOLEAN :
          new = InsertAt(RemoveAt(chain, i), j, Entry(chain[i].id, on))
    BY <1>5 DEF Updated
  <2>2. Entry(chain[i].id, on) \in Rule
    BY <1>1, <2>1 DEF Rule, Entry
  <2>3. j \in 1..(Len(RemoveAt(chain, i)) + 1)
    BY <1>1, <2>1, RemovalShifts
  <2>4. \A k \in DOMAIN RemoveAt(chain, i) : RemoveAt(chain, i)[k].id # Entry(chain[i].id, on).id
    BY <1>1, <1>2, <2>1 DEF Entry
  <2> QED BY <1>1, <1>2, <1>3, <2>1, <2>2, <2>3, <2>4
<1>6. CASE new \in Deleted(chain)
  BY <1>1, <1>2, <1>6 DEF Deleted
<1>7. CASE new \in Moved(chain)
  <2>1. PICK i \in 1..(Len(chain) - 1) :
          new = [chain EXCEPT ![i] = chain[i + 1], ![i + 1] = chain[i]]
    BY <1>7 DEF Moved
  <2>2. [chain EXCEPT ![i] = chain[i + 1]] \in Seq(Rule)
        /\ Len([chain EXCEPT ![i] = chain[i + 1]]) = Len(chain)
    BY <1>1, ExceptSeq
  <2>3. new \in Seq(Rule) /\ Len(new) = Len(chain)
    BY <1>1, <2>1, <2>2, ExceptSeq
  <2>4. \A k \in 1..Len(chain) :
          new[k] = IF k = i THEN chain[i + 1] ELSE IF k = i + 1 THEN chain[i] ELSE chain[k]
    BY <1>1, <2>1
  <2>5. DOMAIN new = 1..Len(chain)
    BY <2>3, LenProperties
  <2> QED BY <1>1, <2>3, <2>4, <2>5 DEF Distinct
<1> QED BY <1>4, <1>5, <1>6, <1>7

-------------------------------------------------------------------------------
(* The tables *)

\* A request that changes the tables has to publish them.
LEMMA SavesKeep ==
    ASSUME RulesInv, NEW a \in Authors, NEW tables \in Tables, Distinct(tables.chain),
           Save(a, tables)
    PROVE  RulesInv'
<1> USE DEF Save
<1>1. request'[a] = "publish" /\ a \in Workers /\ a \notin Enforcers
  BY RolloutRulesAssumption DEF RulesInv, Shapes, Workers
<1>2. Shapes'
  BY DEF RulesInv, Shapes, Tally
<1>3. NoTwice'
  BY DEF NoTwice
<1>4. InOrder' /\ OneRendering' /\ ModernForModern' /\ LoadedAsDesired' /\ ViewReached'
      /\ ShownIsLoaded'
  BY DEF RulesInv, InOrder, OneRendering, ModernForModern, LoadedAsDesired, ViewReached,
         ShownIsLoaded
<1>5. RenderingWanted'
  BY <1>1 DEF RulesInv, Shapes, RenderingWanted, Wants
<1>6. rendering[a] = NotRendering
  BY <1>1 DEF RulesInv, RenderingWanted, Wants
<1>7. ReadingsCurrent'
  <2> SUFFICES ASSUME NEW w \in Workers PROVE OthersPublish(w)' \/ ReadsCurrent(rendering[w])'
    BY DEF ReadingsCurrent
  <2>1. CASE w = a
    BY <1>6, <2>1 DEF ReadsCurrent, NotRendering
  <2>2. CASE w # a
    BY <1>1, <2>2 DEF OthersPublish
  <2> QED BY <2>1, <2>2
<1>8. StatesCurrent'
  BY <1>1 DEF StatesCurrent, Waiting
<1> QED BY <1>2, <1>3, <1>4, <1>5, <1>7, <1>8 DEF RulesInv

LEMMA ChangesKeep ==
    ASSUME RulesInv, NEW a \in Authors, ChangeRules(a) \/ ChangeChallenge(a) \/ ChangeLimit(a)
    PROVE  RulesInv'
<1>1. rules \in Tables /\ rules.chain \in Seq(Rule) /\ Distinct(rules.chain) /\ counts.saves \in Nat
  BY DEF RulesInv, Shapes, NoTwice, Tables
<1>2. CASE ChangeRules(a)
  <2>1. PICK chain \in Created(rules.chain) \union Updated(rules.chain)
                       \union Deleted(rules.chain) \union Moved(rules.chain) :
          Save(a, [rules EXCEPT !.chain = chain])
    BY <1>2 DEF ChangeRules
  <2>2. chain \in Seq(Rule) /\ Distinct(chain)
    BY <1>1, ChangesKeepIds
  <2>3. [rules EXCEPT !.chain = chain] \in Tables /\ [rules EXCEPT !.chain = chain].chain = chain
    BY <1>1, <2>2 DEF Tables
  <2> QED BY <2>1, <2>2, <2>3, SavesKeep
<1>3. CASE ChangeChallenge(a)
  <2>1. PICK c \in Challenged : Save(a, [rules EXCEPT !.challenge = c])
    BY <1>3 DEF ChangeChallenge
  <2>2. [rules EXCEPT !.challenge = c] \in Tables
        /\ [rules EXCEPT !.challenge = c].chain = rules.chain
    BY <1>1, <2>1 DEF Tables, Challenged
  <2> QED BY <1>1, <2>1, <2>2, SavesKeep
<1>4. CASE ChangeLimit(a)
  <2>1. PICK l \in Limited : Save(a, [rules EXCEPT !.limit = l])
    BY <1>4 DEF ChangeLimit
  <2>2. [rules EXCEPT !.limit = l] \in Tables
        /\ [rules EXCEPT !.limit = l].chain = rules.chain
    BY <1>1, <2>1 DEF Tables, Limited
  <2> QED BY <1>1, <2>1, <2>2, SavesKeep
<1> QED BY <1>2, <1>3, <1>4

LEMMA DeployKeeps ==
    ASSUME RulesInv, NEW a \in Authors, Deploy(a)
    PROVE  RulesInv'
<1> USE DEF Deploy
<1>1. request'[a] = "publish" /\ \A b \in Authors : request[b] = "publish" => request'[b] = "publish"
  BY DEF RulesInv, Shapes
<1>2. Shapes'
  BY DEF RulesInv, Shapes
<1>3. NoTwice' /\ InOrder' /\ OneRendering' /\ ModernForModern' /\ LoadedAsDesired'
      /\ ViewReached' /\ ShownIsLoaded'
  BY DEF RulesInv, NoTwice, InOrder, OneRendering, ModernForModern, LoadedAsDesired,
         ViewReached, ShownIsLoaded
<1>4. RenderingWanted'
  BY <1>1, RolloutRulesAssumption DEF RulesInv, Shapes, RenderingWanted, Wants, Workers
<1>5. ReadingsCurrent'
  BY <1>1 DEF RulesInv, ReadingsCurrent, OthersPublish, ReadsCurrent
<1>6. StatesCurrent'
  BY <1>1 DEF StatesCurrent, Waiting
<1> QED BY <1>2, <1>3, <1>4, <1>5, <1>6 DEF RulesInv

-------------------------------------------------------------------------------
(* Rendering *)

\* Whoever ends was the only one to render, and nobody renders afterwards.
LEMMA EndedClears ==
    ASSUME RulesInv, NEW w \in Workers, NEW done \in BOOLEAN, Ended(w, done),
           rendering[w] # NotRendering \/ MayRender(w)
    PROVE  /\ \A v \in Workers : rendering'[v] = NotRendering
           /\ rendering' \in [Workers -> Renderings]
           /\ request' \in [Authors -> {"idle", "publish"}]
           /\ beats' \in [Enforcers -> {"idle", "check", "publish"}]
           /\ unsettled' \in BOOLEAN
           /\ (w \in Authors => unsettled' = ~done)
           /\ (w \in Enforcers => request' = request /\ unsettled' = unsettled)
           /\ \A a \in Authors \ {w} : request'[a] = request[a]
<1>1. /\ rendering \in [Workers -> Renderings] /\ request \in [Authors -> {"idle", "publish"}]
      /\ beats \in [Enforcers -> {"idle", "check", "publish"}] /\ unsettled \in BOOLEAN
      /\ NotRendering \in Renderings
  BY DEF RulesInv, Shapes, Renderings
<1>2. \A v \in Workers : v # w => rendering[v] = NotRendering
  BY DEF RulesInv, OneRendering, MayRender
<1>3. /\ rendering' = [rendering EXCEPT ![w] = NotRendering]
      /\ w \in Enforcers => /\ beats' = [beats EXCEPT ![w] = "idle"]
                            /\ request' = request /\ unsettled' = unsettled
      /\ w \notin Enforcers => /\ request' = [request EXCEPT ![w] = "idle"]
                               /\ unsettled' = ~done /\ beats' = beats
  BY DEF Ended
<1>4. (\A v \in Workers : rendering'[v] = NotRendering) /\ rendering' \in [Workers -> Renderings]
  BY <1>1, <1>2, <1>3
<1>5. CASE w \in Enforcers
  BY <1>1, <1>3, <1>4, <1>5, RolloutRulesAssumption
<1>6. CASE w \notin Enforcers
  <2>1. w \in Authors
    BY <1>6 DEF Workers
  <2>2. request' \in [Authors -> {"idle", "publish"}]
        /\ \A a \in Authors \ {w} : request'[a] = request[a]
    BY <1>1, <1>3, <1>6, <2>1
  <2>3. unsettled' = ~done /\ unsettled' \in BOOLEAN /\ beats' = beats
    BY <1>3, <1>6, Zenon
  <2> QED BY <1>1, <1>4, <1>6, <2>2, <2>3
<1> QED BY <1>5, <1>6

LEMMA NobodyRenders ==
    ASSUME \A v \in Workers : rendering'[v] = NotRendering
    PROVE  OneRendering' /\ RenderingWanted' /\ ReadingsCurrent'
BY DEF OneRendering, RenderingWanted, ReadingsCurrent, ReadsCurrent, NotRendering

\* A publication that does not happen leaves its administrator an error.
LEMMA UnpublishedKeeps ==
    ASSUME RulesInv, NEW w \in Workers, Ended(w, FALSE),
           rendering[w] # NotRendering \/ MayRender(w),
           UNCHANGED <<rules, level, applied, desired, agent, upgrading, viewer, shown>>,
           counts' \in [saves : Nat, agents : Nat, hindrances : Nat]
    PROVE  RulesInv'
<1>1. /\ \A v \in Workers : rendering'[v] = NotRendering
      /\ rendering' \in [Workers -> Renderings] /\ request' \in [Authors -> {"idle", "publish"}]
      /\ beats' \in [Enforcers -> {"idle", "check", "publish"}] /\ unsettled' \in BOOLEAN
      /\ (w \in Authors => unsettled')
      /\ (w \in Enforcers => request' = request /\ unsettled' = unsettled)
  BY EndedClears
<1>2. Shapes'
  BY <1>1 DEF RulesInv, Shapes
<1>3. NoTwice' /\ InOrder' /\ ModernForModern' /\ LoadedAsDesired' /\ ViewReached' /\ ShownIsLoaded'
  BY DEF RulesInv, NoTwice, InOrder, ModernForModern, LoadedAsDesired, ViewReached, ShownIsLoaded
<1>4. OneRendering' /\ RenderingWanted' /\ ReadingsCurrent'
  BY <1>1, NobodyRenders
<1>5. StatesCurrent'
  BY <1>1 DEF RulesInv, StatesCurrent, Waiting, Workers
<1> QED BY <1>2, <1>3, <1>4, <1>5 DEF RulesInv

LEMMA FailuresKeep ==
    ASSUME RulesInv, NEW w \in Workers, RenderingFails(w)
    PROVE  RulesInv'
<1>1. counts' \in [saves : Nat, agents : Nat, hindrances : Nat]
  BY DEF RenderingFails, Tally, RulesInv, Shapes
<1> QED BY <1>1, UnpublishedKeeps DEF RenderingFails

LEMMA BeginningsKeep ==
    ASSUME RulesInv, NEW w \in Workers, BeginRendering(w)
    PROVE  RulesInv'
<1> USE DEF BeginRendering
<1>1. CASE Scope(w) \intersect upgrading # {}
  <2>1. counts' \in [saves : Nat, agents : Nat, hindrances : Nat]
    BY DEF RulesInv, Shapes
  <2> QED BY <1>1, <2>1, UnpublishedKeeps
<1>2. CASE Scope(w) \intersect upgrading = {}
  <2>1. /\ rendering' = [rendering EXCEPT ![w] = [at |-> "nodes"]]
        /\ UNCHANGED <<request, beats, unsettled>>
    BY <1>2
  <2>2. Shapes'
    BY <2>1 DEF RulesInv, Shapes, Renderings
  <2>3. NoTwice' /\ InOrder' /\ ModernForModern' /\ LoadedAsDesired' /\ ViewReached'
        /\ ShownIsLoaded' /\ StatesCurrent'
    BY <2>1 DEF RulesInv, NoTwice, InOrder, ModernForModern, LoadedAsDesired, ViewReached,
                ShownIsLoaded, StatesCurrent, Waiting
  <2>4. \A v \in Workers : rendering'[v] = IF v = w THEN [at |-> "nodes"] ELSE NotRendering
    BY <2>1 DEF RulesInv, Shapes, MayRender
  <2>5. OneRendering'
    BY <2>4 DEF OneRendering
  <2>6. RenderingWanted'
    BY <2>1, <2>4 DEF RenderingWanted, Wants
  <2>7. ReadingsCurrent'
    BY <2>4 DEF ReadingsCurrent, ReadsCurrent, NotRendering
  <2> QED BY <2>2, <2>3, <2>5, <2>6, <2>7 DEF RulesInv
<1> QED BY <1>1, <1>2

\* What a publication reads is what the tables hold.
LEMMA ReadingKeeps ==
    ASSUME RulesInv, NEW w \in Workers, NEW r \in Renderings,
           rendering[w] # NotRendering, rendering' = [rendering EXCEPT ![w] = r],
           ReadsCurrent(rendering[w]) => ReadsCurrent(r),
           UNCHANGED <<rules, level, applied, desired, agent, upgrading, request, beats, viewer,
                       shown, unsettled, counts>>
    PROVE  RulesInv'
<1>1. Shapes'
  BY DEF RulesInv, Shapes
<1>2. NoTwice' /\ InOrder' /\ ModernForModern' /\ LoadedAsDesired' /\ ViewReached'
      /\ ShownIsLoaded' /\ StatesCurrent'
  BY DEF RulesInv, NoTwice, InOrder, ModernForModern, LoadedAsDesired, ViewReached,
              ShownIsLoaded, StatesCurrent, Waiting
<1>3. \A v \in Workers : /\ v # w => rendering'[v] = rendering[v]
                         /\ rendering'[v] # NotRendering => rendering[v] # NotRendering
                         /\ rendering'[w] = r
  BY DEF RulesInv, Shapes
<1>4. OneRendering'
  BY <1>3 DEF RulesInv, OneRendering
<1>5. RenderingWanted'
  BY <1>3 DEF RulesInv, RenderingWanted, Wants
<1>6. ReadingsCurrent'
  <2> SUFFICES ASSUME NEW v \in Workers PROVE OthersPublish(v)' \/ ReadsCurrent(rendering[v])'
    BY DEF ReadingsCurrent
  <2>1. OthersPublish(v) \/ ReadsCurrent(rendering[v])
    BY DEF RulesInv, ReadingsCurrent
  <2>2. OthersPublish(v)' = OthersPublish(v)
    BY DEF OthersPublish
  <2>3. CASE v = w
    <3>1. OthersPublish(w) \/ ReadsCurrent(r)
      BY <2>1, <2>3
    <3>2. ReadsCurrent(r) => ReadsCurrent(rendering[w])'
      BY <1>3 DEF ReadsCurrent
    <3> QED BY <2>2, <2>3, <3>1, <3>2
  <2>4. CASE v # w
    BY <1>3, <2>1, <2>2, <2>4 DEF ReadsCurrent
  <2> QED BY <2>3, <2>4
<1> QED BY <1>1, <1>2, <1>4, <1>5, <1>6 DEF RulesInv

LEMMA ReadsKeep ==
    ASSUME RulesInv, NEW w \in Workers,
           ListNodes(w) \/ ReadRules(w) \/ ReadChallenges(w) \/ ReadLimits(w)
    PROVE  RulesInv'
<1>1. rendering[w] \in Renderings /\ rules \in Tables /\ level \in Levels
  BY DEF RulesInv, Shapes
<1>2. CASE ListNodes(w)
  <2> DEFINE r == [at |-> "rules", level |-> level]
  <2>1. r \in Renderings /\ ReadsCurrent(r)
    BY <1>1 DEF Renderings, ReadsCurrent
  <2>2. /\ rendering[w] # NotRendering /\ rendering' = [rendering EXCEPT ![w] = r]
        /\ UNCHANGED <<rules, level, applied, desired, agent, upgrading, request, beats, viewer,
                       shown, unsettled, counts>>
    BY <1>2, <2>1 DEF ListNodes, Reads, NotRendering
  <2> HIDE DEF r
  <2> QED BY <1>2, <2>1, <2>2, ReadingKeeps
<1>3. CASE ReadRules(w)
  <2> DEFINE r == [at |-> "challenges", level |-> rendering[w].level, chain |-> rules.chain]
  <2>1. rendering[w].at = "rules"
    BY <1>3 DEF ReadRules, Reads
  <2>2. rendering[w].level \in Levels
    BY <1>1, <2>1 DEF Renderings, NotRendering
  <2>3. r \in Renderings /\ ReadsCurrent(r)
    BY <1>1, <2>2 DEF Renderings, ReadsCurrent, Tables
  <2>4. /\ rendering[w] # NotRendering /\ rendering' = [rendering EXCEPT ![w] = r]
        /\ UNCHANGED <<rules, level, applied, desired, agent, upgrading, request, beats, viewer,
                       shown, unsettled, counts>>
    BY <1>3, <2>1, <2>3 DEF ReadRules, Reads, NotRendering
  <2> HIDE DEF r
  <2> QED BY <1>3, <2>1, <2>3, <2>4, ReadingKeeps
<1>4. CASE ReadChallenges(w)
  <2> DEFINE r == [at |-> "limits", level |-> rendering[w].level,
                   chain |-> rendering[w].chain, challenge |-> rules.challenge]
  <2>1. rendering[w].at = "challenges"
    BY <1>4 DEF ReadChallenges, Reads
  <2>2. rendering[w].level \in Levels /\ rendering[w].chain \in Seq(Rule)
    BY <1>1, <2>1 DEF Renderings, NotRendering
  <2>3. r \in Renderings
    BY <1>1, <2>2 DEF Renderings, Tables
  <2>4. ReadsCurrent(rendering[w]) => ReadsCurrent(r)
    BY <2>1 DEF ReadsCurrent
  <2>5. /\ rendering[w] # NotRendering /\ rendering' = [rendering EXCEPT ![w] = r]
        /\ UNCHANGED <<rules, level, applied, desired, agent, upgrading, request, beats, viewer,
                       shown, unsettled, counts>>
    BY <1>4, <2>1, <2>3, <2>4 DEF ReadChallenges, Reads, NotRendering
  <2> HIDE DEF r
  <2> QED BY <1>4, <2>1, <2>3, <2>4, <2>5, ReadingKeeps
<1>5. CASE ReadLimits(w)
  <2> DEFINE t == [chain |-> rendering[w].chain, challenge |-> rendering[w].challenge,
                   limit |-> rules.limit]
             r == [at |-> "save", level |-> rendering[w].level, tables |-> t]
  <2>1. rendering[w].at = "limits"
    BY <1>5 DEF ReadLimits, Reads
  <2>2. /\ rendering[w].level \in Levels /\ rendering[w].chain \in Seq(Rule)
        /\ rendering[w].challenge \in Nat
    BY <1>1, <2>1 DEF Renderings, NotRendering
  <2>3. t \in Tables
    BY <1>1, <2>2 DEF Tables
  <2>4. r \in Renderings
    BY <2>2, <2>3 DEF Renderings
  <2>5. rules = [chain |-> rules.chain, challenge |-> rules.challenge, limit |-> rules.limit]
    BY <1>1 DEF Tables
  <2>6. ReadsCurrent(rendering[w]) => t = rules
    BY <2>1, <2>5 DEF ReadsCurrent
  <2>7. ReadsCurrent(rendering[w]) => ReadsCurrent(r)
    BY <2>6 DEF ReadsCurrent
  <2>8. /\ rendering[w] # NotRendering /\ rendering' = [rendering EXCEPT ![w] = r]
        /\ UNCHANGED <<rules, level, applied, desired, agent, upgrading, request, beats, viewer,
                       shown, unsettled, counts>>
    BY <1>5, <2>1, <2>4, <2>7 DEF ReadLimits, Reads, NotRendering
  <2> HIDE DEF r
  <2> QED BY <1>5, <2>1, <2>4, <2>7, <2>8, ReadingKeeps
<1> QED BY <1>2, <1>3, <1>4, <1>5

\* States are saved from tables that are current, unless another request will
\* publish the difference.
LEMMA SavedStatesKeep ==
    ASSUME RulesInv, NEW w \in Workers, SaveStates(w)
    PROVE  RulesInv'
<1> DEFINE l(n) == rendering[w].level[n]
           body(n) == Rendered(l(n), rendering[w].tables)
<1>1. /\ rendering[w] \in Renderings /\ rendering[w].at = "save"
      /\ desired \in [Enforcers -> [version : Nat, body : Bodies, for : 0..2]]
  BY DEF RulesInv, Shapes, SaveStates
<1>2. rendering[w].level \in Levels /\ rendering[w].tables \in Tables
  BY <1>1 DEF Renderings, NotRendering
<1>3. \A n \in Enforcers : l(n) \in 0..2 /\ body(n) \in Bodies
  BY <1>2 DEF Levels, Bodies
<1>4. \A n \in Enforcers : body(n).modern = (l(n) = 2)
  BY DEF Rendered
<1> HIDE DEF l, body
<1>5. /\ desired' = [n \in Enforcers |->
           IF n \notin Scope(w) THEN desired[n]
           ELSE IF desired[n].body = body(n) THEN [desired[n] EXCEPT !.for = l(n)]
           ELSE [version |-> desired[n].version + 1, body |-> body(n), for |-> l(n)]]
      /\ Ended(w, TRUE)
      /\ UNCHANGED <<rules, level, applied, agent, upgrading, viewer, shown, counts>>
  BY DEF SaveStates, Matches, l, body
<1>6. rendering[w] # NotRendering
  BY <1>1 DEF NotRendering
<1>7. /\ \A v \in Workers : rendering'[v] = NotRendering
      /\ rendering' \in [Workers -> Renderings] /\ request' \in [Authors -> {"idle", "publish"}]
      /\ beats' \in [Enforcers -> {"idle", "check", "publish"}] /\ unsettled' \in BOOLEAN
      /\ (w \in Enforcers => request' = request /\ unsettled' = unsettled)
      /\ \A a \in Authors \ {w} : request'[a] = request[a]
  BY <1>5, <1>6, EndedClears
<1>8. ASSUME NEW n \in Enforcers
      PROVE  /\ desired'[n] \in [version : Nat, body : Bodies, for : 0..2]
             /\ desired'[n].version >= desired[n].version
             /\ desired'[n].version = desired[n].version => desired'[n].body = desired[n].body
             /\ n \notin Scope(w) => desired'[n] = desired[n]
             /\ n \in Scope(w) => desired'[n].body = body(n) /\ desired'[n].for = l(n)
  BY <1>1, <1>3, <1>5
<1>9. Shapes'
  <2>1. desired' \in [Enforcers -> [version : Nat, body : Bodies, for : 0..2]]
    BY <1>5, <1>8
  <2> QED BY <1>5, <1>7, <2>1 DEF RulesInv, Shapes
<1>10. NoTwice' /\ ViewReached' /\ ShownIsLoaded'
  BY <1>5 DEF RulesInv, NoTwice, ViewReached, ShownIsLoaded
<1>11. InOrder' /\ LoadedAsDesired'
  <2> SUFFICES ASSUME NEW n \in Enforcers
               PROVE  /\ applied'[n] <= agent'[n].version /\ agent'[n].version <= desired'[n].version
                      /\ agent'[n].version = desired'[n].version => agent'[n].body = desired'[n].body
    BY DEF InOrder, LoadedAsDesired
  <2>1. /\ applied[n] <= agent[n].version /\ agent[n].version <= desired[n].version
        /\ agent[n].version = desired[n].version => agent[n].body = desired[n].body
        /\ applied[n] \in Nat /\ agent[n].version \in Nat /\ desired[n].version \in Nat
    BY DEF RulesInv, Shapes, InOrder, LoadedAsDesired
  <2>2. desired'[n].version \in Nat /\ applied'[n] = applied[n] /\ agent'[n] = agent[n]
    BY <1>5, <1>8
  <2> QED BY <1>8, <2>1, <2>2
<1>12. OneRendering' /\ RenderingWanted' /\ ReadingsCurrent'
  BY <1>7, NobodyRenders
<1>13. ModernForModern'
  <2> SUFFICES ASSUME NEW n \in Enforcers PROVE desired'[n].body.modern = (desired'[n].for = 2)
    BY DEF ModernForModern
  <2>1. CASE n \in Scope(w)
    BY <1>4, <1>8, <2>1
  <2>2. CASE n \notin Scope(w)
    BY <1>8, <2>2 DEF RulesInv, ModernForModern
  <2> QED BY <2>1, <2>2
<1>14. StatesCurrent'
  <2> SUFFICES ASSUME NEW n \in Enforcers, ~Waiting'
               PROVE  desired'[n].body = Rendered(desired'[n].for, rules')
    BY DEF StatesCurrent
  <2>1. ~OthersPublish(w)
    BY <1>7 DEF OthersPublish, Waiting
  <2>2. rendering[w].tables = rules
    BY <1>1, <2>1 DEF RulesInv, ReadingsCurrent, ReadsCurrent
  <2>3. CASE n \in Scope(w)
    BY <1>5, <1>8, <2>2, <2>3 DEF body, Rendered
  <2>4. CASE n \notin Scope(w)
    <3>1. w \in Enforcers
      BY <2>4 DEF Scope
    <3>2. ~Waiting
      BY <1>7, <3>1 DEF Waiting
    <3>3. desired[n].body = Rendered(desired[n].for, rules)
      BY <3>2 DEF RulesInv, StatesCurrent
    <3> QED BY <1>5, <1>8, <2>4, <3>3 DEF Rendered
  <2> QED BY <2>3, <2>4
<1> QED BY <1>9, <1>10, <1>11, <1>12, <1>13, <1>14 DEF RulesInv

-------------------------------------------------------------------------------
(* The edges *)

LEMMA LoadKeeps ==
    ASSUME RulesInv, NEW n \in Enforcers, Load(n)
    PROVE  RulesInv'
<1> USE DEF Load
<1>1. /\ \A m \in Enforcers : m # n => agent'[m] = agent[m]
      /\ agent'[n].version = desired[n].version /\ agent'[n].body = desired[n].body
      /\ agent' \in [Enforcers -> [level : 0..2, version : Nat, body : Bodies]]
  <2>1. /\ agent \in [Enforcers -> [level : 0..2, version : Nat, body : Bodies]]
        /\ desired[n].version \in Nat /\ desired[n].body \in Bodies
    BY DEF RulesInv, Shapes
  <2> DEFINE new == [agent[n] EXCEPT !.version = desired[n].version, !.body = desired[n].body]
  <2>2. agent' = [agent EXCEPT ![n] = new]
    OBVIOUS
  <2>3. /\ new \in [level : 0..2, version : Nat, body : Bodies]
        /\ new.version = desired[n].version /\ new.body = desired[n].body
    BY <2>1
  <2> HIDE DEF new
  <2> QED BY <2>1, <2>2, <2>3
<1>2. Shapes'
  BY <1>1 DEF RulesInv, Shapes
<1>3. NoTwice' /\ OneRendering' /\ RenderingWanted' /\ ModernForModern' /\ ShownIsLoaded'
      /\ StatesCurrent'
  BY DEF RulesInv, NoTwice, OneRendering, RenderingWanted, Wants, ModernForModern, ShownIsLoaded,
         StatesCurrent, Waiting
<1>4. InOrder'
  BY <1>1 DEF RulesInv, Shapes, InOrder
<1>5. ReadingsCurrent'
  BY DEF RulesInv, ReadingsCurrent, OthersPublish, ReadsCurrent
<1>6. LoadedAsDesired'
  BY <1>1 DEF RulesInv, LoadedAsDesired
<1>7. ViewReached'
  <2> SUFFICES ASSUME viewer.at \in {"version", "state"}
               PROVE  viewer.applied <= agent'[viewer.node].version
    BY DEF ViewReached
  <2>1. viewer.applied \in Nat /\ viewer.node \in Enforcers
    BY DEF RulesInv, Shapes, Views
  <2>2. viewer.applied <= agent[viewer.node].version
    BY DEF RulesInv, ViewReached
  <2>3. agent[n].version \in Nat /\ desired[n].version \in Nat
    BY DEF RulesInv, Shapes
  <2> QED BY <1>1, <2>1, <2>2, <2>3
<1> QED BY <1>2, <1>3, <1>4, <1>5, <1>6, <1>7 DEF RulesInv

\* Heartbeats and upgrades change no state of a node and nothing it has loaded.
LEMMA AgentsKeep ==
    ASSUME RulesInv, NEW n \in Enforcers,
           \/ Beat(n) \/ CheckCapabilities(n) \/ StartUpgrade(n)
           \/ \E l \in 0..2 : EndUpgrade(n, l)
    PROVE  RulesInv'
<1>1. CASE Beat(n)
  <2> USE <1>1 DEF Beat
  <2>1. Shapes'
    BY DEF RulesInv, Shapes, Levels
  <2>2. InOrder'
    BY DEF RulesInv, Shapes, InOrder
  <2>3. RenderingWanted'
    BY RolloutRulesAssumption DEF RulesInv, Shapes, RenderingWanted, Wants
  <2>4. NoTwice' /\ OneRendering' /\ ModernForModern' /\ ShownIsLoaded' /\ StatesCurrent'
        /\ LoadedAsDesired' /\ ViewReached'
    BY DEF RulesInv, NoTwice, OneRendering, ModernForModern, ShownIsLoaded, StatesCurrent, Waiting,
           LoadedAsDesired, ViewReached
  <2>5. ReadingsCurrent'
    BY DEF RulesInv, ReadingsCurrent, OthersPublish, ReadsCurrent
  <2> QED BY <2>1, <2>2, <2>3, <2>4, <2>5 DEF RulesInv
<1>2. CASE CheckCapabilities(n)
  <2> USE <1>2 DEF CheckCapabilities
  <2>1. Shapes'
    BY DEF RulesInv, Shapes
  <2>2. RenderingWanted'
    BY DEF RulesInv, Shapes, RenderingWanted, Wants
  <2>3. NoTwice' /\ InOrder' /\ OneRendering' /\ ModernForModern' /\ ShownIsLoaded'
        /\ StatesCurrent' /\ LoadedAsDesired' /\ ViewReached'
    BY DEF RulesInv, NoTwice, InOrder, OneRendering, ModernForModern, ShownIsLoaded, StatesCurrent,
           Waiting, LoadedAsDesired, ViewReached
  <2>4. ReadingsCurrent'
    BY DEF RulesInv, ReadingsCurrent, OthersPublish, ReadsCurrent
  <2> QED BY <2>1, <2>2, <2>3, <2>4 DEF RulesInv
<1>3. CASE StartUpgrade(n)
  <2> USE <1>3 DEF StartUpgrade
  <2>1. Shapes'
    BY SMTT(30) DEF RulesInv, Shapes, Tally
  <2>2. NoTwice' /\ InOrder' /\ OneRendering' /\ RenderingWanted' /\ ModernForModern'
        /\ ShownIsLoaded' /\ StatesCurrent' /\ LoadedAsDesired' /\ ViewReached'
    BY DEF RulesInv, NoTwice, InOrder, OneRendering, RenderingWanted, Wants, ModernForModern,
           ShownIsLoaded, StatesCurrent, Waiting, LoadedAsDesired, ViewReached
  <2>3. ReadingsCurrent'
    BY DEF RulesInv, ReadingsCurrent, OthersPublish, ReadsCurrent
  <2> QED BY <2>1, <2>2, <2>3 DEF RulesInv
<1>4. ASSUME NEW l \in 0..2, EndUpgrade(n, l) PROVE RulesInv'
  <2> USE <1>4 DEF EndUpgrade
  <2>1. Shapes'
    BY DEF RulesInv, Shapes
  <2>2. \A m \in Enforcers : agent'[m].version = agent[m].version /\ agent'[m].body = agent[m].body
    BY DEF RulesInv, Shapes
  <2>3. InOrder' /\ LoadedAsDesired'
    BY <2>2 DEF RulesInv, InOrder, LoadedAsDesired
  <2>4. ViewReached'
    BY <2>2 DEF RulesInv, Shapes, Views, ViewReached
  <2>5. NoTwice' /\ OneRendering' /\ RenderingWanted' /\ ModernForModern' /\ ShownIsLoaded'
        /\ StatesCurrent'
    BY DEF RulesInv, NoTwice, OneRendering, RenderingWanted, Wants, ModernForModern, ShownIsLoaded,
           StatesCurrent, Waiting
  <2>6. ReadingsCurrent'
    BY DEF RulesInv, ReadingsCurrent, OthersPublish, ReadsCurrent
  <2> QED BY <2>1, <2>3, <2>4, <2>5, <2>6 DEF RulesInv
<1> QED BY <1>1, <1>2, <1>3, <1>4

\* What was going on when the controller was killed is unsettled.
LEMMA KillKeeps ==
    ASSUME RulesInv, KillRollout
    PROVE  RulesInv'
<1> USE DEF KillRollout
<1>1. Shapes'
  <2>1. rendering' \in [Workers -> Renderings] /\ viewer' \in Views
    BY DEF Renderings, Views
  <2>2. unsettled' \in BOOLEAN
    BY Zenon
  <2>3. counts' \in [saves : Nat, agents : Nat, hindrances : Nat]
    BY DEF RulesInv, Shapes, Tally
  <2> QED BY <2>1, <2>2, <2>3 DEF RulesInv, Shapes
<1>2. NoTwice' /\ InOrder' /\ ModernForModern' /\ ShownIsLoaded' /\ LoadedAsDesired'
  BY DEF RulesInv, NoTwice, InOrder, ModernForModern, ShownIsLoaded, LoadedAsDesired
<1>3. \A v \in Workers : rendering'[v] = NotRendering
  OBVIOUS
<1>4. OneRendering' /\ RenderingWanted' /\ ReadingsCurrent'
  BY <1>3, NobodyRenders
<1>5. Waiting => unsettled'
  BY DEF Waiting
<1>6. StatesCurrent'
  BY <1>5 DEF RulesInv, StatesCurrent, Waiting
<1>7. ViewReached'
  BY DEF ViewReached
<1> QED BY <1>1, <1>2, <1>4, <1>6, <1>7 DEF RulesInv

-------------------------------------------------------------------------------
(* The overview *)

\* Reading tables, node and version leaves all the rest alone.
LEMMA ViewsKeep ==
    ASSUME RulesInv, ListPolicies \/ ViewNodes \/ ViewVersion
    PROVE  RulesInv'
<1>1. UNCHANGED <<rules, level, applied, desired, agent, upgrading, request, beats, rendering, shown,
                  unsettled, counts>>
  BY DEF ListPolicies, ViewNodes, ViewVersion, View
<1>2. viewer' \in Views /\ ViewReached'
  <2>1. CASE ListPolicies
    <3>1. viewer' = [at |-> "nodes", tables |-> rules]
      BY <2>1 DEF ListPolicies, View
    <3> QED BY <3>1 DEF RulesInv, Shapes, Views, ViewReached
  <2>2. CASE ViewNodes
    <3>1. PICK n \in Enforcers :
            /\ viewer.at = "nodes"
            /\ viewer' = [at |-> "version", tables |-> viewer.tables, node |-> n, level |-> level[n],
                          applied |-> applied[n]]
      BY <2>2 DEF ViewNodes, View
    <3>2. viewer.tables \in Tables /\ level[n] \in 0..2 /\ applied[n] \in Nat
      BY <3>1 DEF RulesInv, Shapes, Views, Levels
    <3>3. applied[n] <= agent[n].version
      BY DEF RulesInv, InOrder
    <3> QED BY <1>1, <3>1, <3>2, <3>3 DEF Views, ViewReached
  <2>3. CASE ViewVersion
    <3>1. /\ viewer.at = "version"
          /\ viewer' = [at |-> "state", tables |-> viewer.tables, node |-> viewer.node,
                        level |-> viewer.level, applied |-> viewer.applied,
                        version |-> desired[viewer.node].version]
      BY <2>3 DEF ViewVersion, View
    <3>2. /\ viewer.tables \in Tables /\ viewer.node \in Enforcers /\ viewer.level \in 0..2
          /\ viewer.applied \in Nat
      BY <3>1 DEF RulesInv, Shapes, Views
    <3>3. desired[viewer.node].version \in Nat
      BY <3>2 DEF RulesInv, Shapes
    <3>4. viewer.applied <= agent[viewer.node].version
      BY <3>1 DEF RulesInv, ViewReached
    <3> QED BY <1>1, <3>1, <3>2, <3>3, <3>4 DEF Views, ViewReached
  <2> QED BY <2>1, <2>2, <2>3
<1>3. Shapes'
  BY <1>1, <1>2 DEF RulesInv, Shapes
<1>4. NoTwice' /\ InOrder' /\ OneRendering' /\ RenderingWanted' /\ ModernForModern' /\ StatesCurrent'
      /\ LoadedAsDesired' /\ ShownIsLoaded'
  BY <1>1 DEF RulesInv, NoTwice, InOrder, OneRendering, RenderingWanted, Wants, ModernForModern,
              StatesCurrent, Waiting, LoadedAsDesired, ShownIsLoaded
<1>5. ReadingsCurrent'
  BY <1>1 DEF RulesInv, ReadingsCurrent, OthersPublish, ReadsCurrent
<1> QED BY <1>2, <1>3, <1>4, <1>5 DEF RulesInv

\* A node shown as ready had reached the version of the state that was read.
LEMMA ShowingKeeps ==
    ASSUME RulesInv, ViewState
    PROVE  RulesInv'
<1> DEFINE n == viewer.node
           ready == ShownReady(desired[n].body, viewer.version)
           between == desired[n].version # viewer.version
           runs == agent[n].body = Rendered(viewer.level, viewer.tables)
<1>1. /\ viewer.at = "state" /\ viewer' = [at |-> "idle"]
      /\ shown' = [shown EXCEPT ![n] = [ready |-> ready, between |-> between, runs |-> runs]]
      /\ UNCHANGED <<rules, level, applied, desired, agent, upgrading, request, beats, rendering,
                     unsettled, counts>>
  BY DEF ViewState
<1>2. n \in Enforcers /\ viewer.applied \in Nat /\ viewer.version \in Nat
  BY <1>1 DEF RulesInv, Shapes, Views
<1>3. ready /\ ~between => runs
  <2> SUFFICES ASSUME ready, ~between PROVE runs
    OBVIOUS
  <2>1. viewer.applied <= agent[n].version
    BY <1>1 DEF RulesInv, ViewReached
  <2>2. agent[n].version \in Nat /\ agent[n].version <= desired[n].version
    BY <1>2 DEF RulesInv, Shapes, InOrder
  <2>3. desired[n].version = viewer.version /\ viewer.version <= viewer.applied
        /\ desired[n].body = Rendered(viewer.level, viewer.tables)
    BY <1>2 DEF ShownReady
  <2>4. agent[n].version = desired[n].version
    BY <1>2, <2>1, <2>2, <2>3
  <2> QED BY <1>2, <2>3, <2>4 DEF RulesInv, LoadedAsDesired
<1>4. ready \in BOOLEAN /\ between \in BOOLEAN /\ runs \in BOOLEAN
  BY DEF ShownReady
<1> HIDE DEF ready, between, runs
<1>5. shown' \in [Enforcers -> [ready : BOOLEAN, between : BOOLEAN, runs : BOOLEAN]]
  BY <1>1, <1>2, <1>4 DEF RulesInv, Shapes
<1>6. ShownIsLoaded'
  BY <1>1, <1>2, <1>3 DEF RulesInv, Shapes, ShownIsLoaded
<1>7. Shapes'
  BY <1>1, <1>5 DEF RulesInv, Shapes, Views
<1>8. NoTwice' /\ InOrder' /\ OneRendering' /\ RenderingWanted' /\ ModernForModern' /\ StatesCurrent'
      /\ LoadedAsDesired' /\ ViewReached'
  BY <1>1 DEF RulesInv, NoTwice, InOrder, OneRendering, RenderingWanted, Wants, ModernForModern,
              StatesCurrent, Waiting, LoadedAsDesired, ViewReached
<1>9. ReadingsCurrent'
  BY <1>1 DEF RulesInv, ReadingsCurrent, OthersPublish, ReadsCurrent
<1> QED BY <1>6, <1>7, <1>8, <1>9 DEF RulesInv

-------------------------------------------------------------------------------
(* The theorem *)

LEMMA RulesInitially == RulesInit => RulesInv
<1> SUFFICES ASSUME RulesInit PROVE RulesInv
  OBVIOUS
<1> USE DEF RulesInit
<1>1. rules \in Tables
  BY EmptySeq DEF Tables
<1>2. \A n \in Enforcers : level[n] \in 0..2 /\ Rendered(level[n], rules) \in Bodies
  BY <1>1 DEF Bodies
<1>3. Shapes
  <2>1. level \in Levels /\ rendering \in [Workers -> Renderings] /\ viewer \in Views
    BY DEF Levels, Renderings, Views
  <2>2. desired \in [Enforcers -> [version : Nat, body : Bodies, for : 0..2]]
    BY <1>2
  <2>3. agent \in [Enforcers -> [level : 0..2, version : Nat, body : Bodies]]
    BY <1>2
  <2> QED BY <1>1, <2>1, <2>2, <2>3 DEF Shapes
<1>4. NoTwice
  BY DEF NoTwice, Distinct
<1>5. InOrder /\ LoadedAsDesired /\ ShownIsLoaded /\ ViewReached
  BY DEF InOrder, LoadedAsDesired, ShownIsLoaded, ViewReached
<1>6. OneRendering /\ RenderingWanted /\ ReadingsCurrent
  BY DEF OneRendering, RenderingWanted, ReadingsCurrent, ReadsCurrent, NotRendering
<1>7. StatesCurrent
  BY DEF StatesCurrent
<1>8. ModernForModern
  BY DEF ModernForModern, Rendered
<1> QED BY <1>3, <1>4, <1>5, <1>6, <1>7, <1>8 DEF RulesInv

LEMMA StepsKeep == RulesInv /\ [RulesNext]_ruleVars => RulesInv'
<1> SUFFICES ASSUME RulesInv, [RulesNext]_ruleVars PROVE RulesInv'
  OBVIOUS
<1>1. CASE UNCHANGED ruleVars
  BY <1>1 DEF ruleVars, RulesInv, Shapes, NoTwice, InOrder, OneRendering, RenderingWanted, Wants,
              ReadingsCurrent, OthersPublish, ReadsCurrent, StatesCurrent, Waiting, ModernForModern,
              LoadedAsDesired, ViewReached, ShownIsLoaded
<1>2. CASE \E a \in Authors : ChangeRules(a) \/ ChangeChallenge(a) \/ ChangeLimit(a) \/ Deploy(a)
  BY <1>2, ChangesKeep, DeployKeeps
<1>3. CASE \E w \in Workers :
             BeginRendering(w) \/ ListNodes(w) \/ ReadRules(w) \/ ReadChallenges(w)
             \/ ReadLimits(w) \/ SaveStates(w) \/ RenderingFails(w)
  BY <1>3, BeginningsKeep, ReadsKeep, SavedStatesKeep, FailuresKeep
<1>4. CASE \E n \in Enforcers :
             Load(n) \/ Beat(n) \/ CheckCapabilities(n) \/ StartUpgrade(n)
             \/ \E l \in 0..2 : EndUpgrade(n, l)
  BY <1>4, LoadKeeps, AgentsKeep
<1>5. CASE ListPolicies \/ ViewNodes \/ ViewVersion
  BY <1>5, ViewsKeep
<1>6. CASE ViewState
  BY <1>6, ShowingKeeps
<1>7. CASE KillRollout
  BY <1>7, KillKeeps
<1> QED BY <1>1, <1>2, <1>3, <1>4, <1>5, <1>6, <1>7 DEF RulesNext

LEMMA InvImpliesRulesHold == RulesInv => RulesHold
<1> SUFFICES ASSUME RulesInv PROVE RulesHold
  OBVIOUS
<1>1. Cardinality({w \in Workers : rendering[w] # NotRendering}) <= 1
  <2> DEFINE busy == {w \in Workers : rendering[w] # NotRendering}
  <2>1. CASE busy = {}
    BY <2>1, FS_EmptySet
  <2>2. ASSUME NEW v \in busy PROVE Cardinality(busy) <= 1
    <3>1. busy = {v}
      BY DEF RulesInv, OneRendering
    <3> QED BY <3>1, FS_Singleton
  <2> QED BY <2>1, <2>2
<1>2. RulesTypeOK
  BY <1>1 DEF RulesTypeOK, RulesInv, Shapes, Levels, NoTwice, Distinct, InOrder
<1>3. StaleIsKnown
  <2> SUFFICES ASSUME NEW n \in Enforcers, ~Waiting, ~NeedsRebuild(n)
               PROVE  \/ desired[n].body = Rendered(level[n], rules)
                      \/ {level[n], desired[n].for} = {0, 1}
    BY DEF StaleIsKnown, Waiting
  <2>1. desired[n].body = Rendered(desired[n].for, rules)
    BY DEF RulesInv, StatesCurrent
  <2>2. (level[n] = 2) = (desired[n].for = 2)
    BY DEF RulesInv, ModernForModern, NeedsRebuild
  <2>3. level[n] \in 0..2 /\ desired[n].for \in 0..2
    BY DEF RulesInv, Shapes, Levels
  <2>4. level[n] = desired[n].for \/ {level[n], desired[n].for} = {0, 1}
    BY <2>2, <2>3
  <2> QED BY <2>1, <2>4
<1> QED BY <1>2, <1>3 DEF RulesHold, RulesInv

\* What an administrator changes about rules, challenges and limits is never
\* lost on its way to the nodes without a request, an error or a heartbeat that
\* would tell, and what the overview shows as enforced is loaded: for every set
\* of nodes, administrators and rules, and any number of changes, upgrades,
\* failures and kills (Publisher.PublishAll, securityRuntimeStateNeedsRebuild,
\* the security overview).
THEOREM PoliciesArrive == RulesSpec => []RulesHold
<1>1. RulesInit => RulesInv
  BY RulesInitially
<1>2. RulesInv /\ [RulesNext]_ruleVars => RulesInv'
  BY StepsKeep
<1>3. RulesInv => RulesHold
  BY InvImpliesRulesHold
<1> QED BY <1>1, <1>2, <1>3, PTL DEF RulesSpec

-------------------------------------------------------------------------------
(* The cache *)

Keys == Nat \X Nat
Epochs == [Urls -> Nat]
Sites == [generation : Nat \ {0}, rules : SUBSET CacheRule, jobs : Seq(OperationIds), version : Nat,
          caching : BOOLEAN, enabled : BOOLEAN, epoch : Epochs]
Operations ==
  [scope : Scopes, paths : SUBSET Urls, failed : BOOLEAN,
   task : {"none", "active", "succeeded", "partial", "failed"}, attached : BOOLEAN,
   overdue : BOOLEAN, epoch : Epochs, rows : [Edges -> Row]]
Results == [job : OperationIds, status : Reported, run : 0..MaxRuns]
Rounds == [at : {"idle", "run", "save", "persist"}, list : Seq(OperationIds), version : Nat,
           before : SUBSET Content, done : SUBSET OperationIds, results : SUBSET Results,
           failed : Nat]
Beats == [at : {"none", "sent", "handled"}, version : Nat, failed : Nat, results : SUBSET Results]

CacheShapes ==
  /\ site \in Sites /\ publication \in Sites
  /\ staged \in [Edges -> [content : Content, jobs : Seq(OperationIds), version : Nat]]
  /\ ops \in Seq(Operations) /\ Len(ops) <= MaxOperations
  /\ underway \in 0..Len(ops) /\ lastTask \in 0..Len(ops)
  /\ heard \in [Edges -> [capable : BOOLEAN, version : Nat]]
  /\ running \in [Edges -> Content]
  /\ disk \in [Edges -> [applied : Nat, completed : SUBSET OperationIds, pending : SUBSET Results]]
  /\ round \in [Edges -> Rounds] /\ beat \in [Edges -> Beats]
  /\ cached \in [Edges -> SUBSET [url : Urls, key : Keys, epoch : Nat]]
  /\ retired \subseteq Urls \X Keys
  /\ lastRun \in [Edges -> [OperationIds -> 0..MaxRuns]]
  /\ used \in [edits : Nat, runs : 0..MaxRuns, faults : Nat]

\* What a page's key is taken from: one matching rule is the last.
HasLastRule(s) ==
  \A u \in Urls :
    LET matching == {r \in s.rules : u \in r.scope}
    IN  matching # {} => \E r \in matching : \A other \in matching : other.generation <= r.generation
ViewSound(s) ==
  /\ s.generation \in Nat \ {0} /\ s.rules \subseteq CacheRule /\ s.epoch \in Epochs
  /\ HasLastRule(s)

\* The site and what was made of it.
CacheViews ==
  {site, publication} \union {staged[n].content : n \in Edges} \union {running[n] : n \in Edges}
    \union UNION {round[n].before : n \in Edges}

KeyBefore(k, l) == k[1] < l[1] \/ (k[1] = l[1] /\ k[2] < l[2])

SiteSound ==
  /\ \A s \in {site, publication} :
       IsFiniteSet(s.rules) /\ Cardinality(s.rules) <= MaxRules /\ Len(s.jobs) <= MaxJobs
  /\ \A r \in site.rules : r.generation <= site.version

\* Keys go up: the site's is the highest, and what it was to replace is below.
KeysGoUp ==
  /\ \A s \in CacheViews : ViewSound(s)
  /\ \A s \in CacheViews, u \in Urls :
       KeyOf(s, u) = KeyOf(site, u) \/ KeyBefore(KeyOf(s, u), KeyOf(site, u))
  /\ \A n \in Edges : \A e \in cached[n] :
       e.key = KeyOf(site, e.url) \/ KeyBefore(e.key, KeyOf(site, e.url))
  /\ \A r \in retired : KeyBefore(r[2], KeyOf(site, r[1]))

\* A key stands for one epoch of its page.
KeysAgree ==
  /\ \A s, t \in CacheViews : \A u \in Urls : KeyOf(s, u) = KeyOf(t, u) => s.epoch[u] = t.epoch[u]
  /\ \A n \in Edges : \A e \in cached[n] : \A s \in CacheViews :
       e.key = KeyOf(s, e.url) => e.epoch = s.epoch[e.url]

\* The jobs that come with a content belong to invalidations which it contains.
JobsWithin(epoch, jobs) ==
  \A i \in DOMAIN jobs : /\ jobs[i] \in DOMAIN ops
                         /\ \A u \in Urls : ops[jobs[i]].epoch[u] <= epoch[u]
JobsFollow ==
  /\ JobsWithin(site.epoch, site.jobs) /\ JobsWithin(publication.epoch, publication.jobs)
  /\ \A n \in Edges : JobsWithin(staged[n].content.epoch, staged[n].jobs)
  /\ \A n \in Edges : round[n].at # "idle" => JobsWithin(running[n].epoch, round[n].list)

VersionsRise ==
  \A n \in Edges :
    /\ disk[n].applied <= staged[n].version /\ heard[n].version <= disk[n].applied
    /\ round[n].at # "idle" =>
         disk[n].applied < round[n].version /\ round[n].version <= staged[n].version
    /\ beat[n].at # "none" =>
         heard[n].version <= beat[n].version /\ beat[n].version <= disk[n].applied

\* The rows of an operation and its task.
RowsSound ==
  \A o \in DOMAIN ops :
    /\ ops[o].attached => ops[o].task # "none"
    /\ ops[o].task = "succeeded" => \A n \in Edges : ops[o].rows[n].conf = "succeeded"
    /\ \A n \in Edges :
         /\ ops[o].rows[n].conf = "succeeded" => heard[n].version >= ops[o].rows[n].target
         /\ ops[o].rows[n].warm = "not_requested" => ops[o].paths = {}

\* What is said to be warm is.
AllResults(n) == round[n].results \union disk[n].pending \union beat[n].results
Warmed(n, o) ==
  \A u \in ops[o].paths : \E e \in cached[n] : e.url = u /\ e.epoch >= ops[o].epoch[u]
WarmSound ==
  \A n \in Edges :
    /\ \A r \in AllResults(n) :
         r.job \in DOMAIN ops /\ (r.status = "succeeded" => Warmed(n, r.job))
    /\ \A o \in DOMAIN ops : ops[o].rows[n].warm = "succeeded" => Warmed(n, o)

\* The last run of a job is with the controller or waits to be told.
Kept(n, job) ==
  \/ ops[job].rows[n].run = lastRun[n][job]
  \/ \E p \in disk[n].pending : p.job = job /\ p.run = lastRun[n][job]
OneEach(results) == \A p, q \in results : p.job = q.job => p = q

RunsOrdered(n) ==
  /\ \A job \in OperationIds : lastRun[n][job] <= used.runs
  /\ \A o \in DOMAIN ops : ops[o].rows[n].run <= lastRun[n][o]
  /\ OneEach(round[n].results) /\ OneEach(disk[n].pending) /\ OneEach(beat[n].results)
  /\ \A p \in round[n].results : p.run = lastRun[n][p.job]
  /\ \A p \in disk[n].pending :
       ops[p.job].rows[n].run <= p.run /\ p.run <= lastRun[n][p.job]
  /\ \A p \in beat[n].results :
       /\ p.run <= lastRun[n][p.job]
       /\ beat[n].at = "sent" => ops[p.job].rows[n].run <= p.run
       /\ beat[n].at = "handled" => ops[p.job].rows[n].run = p.run
       /\ \A q \in disk[n].pending : q.job = p.job => p.run <= q.run

LastRunsKept(n) ==
  /\ disk[n].completed \union round[n].done \subseteq DOMAIN ops
  /\ \A job \in disk[n].completed : Kept(n, job)
  /\ round[n].at = "run" =>
       /\ round[n].done = disk[n].completed
       /\ \A p \in round[n].results : p.job \notin round[n].done
  /\ round[n].at = "save" => \A job \in round[n].done : Kept(n, job)

RunsKept == \A n \in Edges : RunsOrdered(n) /\ LastRunsKept(n)

CacheInv ==
  /\ CacheShapes /\ SiteSound /\ KeysGoUp /\ KeysAgree /\ JobsFollow /\ VersionsRise /\ RowsSound
  /\ WarmSound /\ RunsKept


LEMMA CacheConstants ==
  /\ Scopes \subseteq SUBSET Urls
  /\ MaxRules \in Nat \ {0} /\ MaxJobs \in Nat \ {0} /\ MaxOperations \in Nat /\ MaxRuns \in Nat
BY CacheAssumption

-------------------------------------------------------------------------------
(* Keys *)

LEMMA SameKey ==
  ASSUME NEW s, NEW t, NEW u, s.generation = t.generation, s.rules = t.rules
  PROVE  KeyOf(s, u) = KeyOf(t, u)
BY DEF KeyOf

\* A key is the site's generation and that of the last rule that matches.
LEMMA KeyIsLast ==
  ASSUME NEW s, ViewSound(s), NEW u \in Urls
  PROVE  /\ KeyOf(s, u) \in Keys /\ KeyOf(s, u) = <<s.generation, KeyOf(s, u)[2]>>
         /\ \A r \in s.rules : u \in r.scope => r.generation <= KeyOf(s, u)[2]
         /\ \/ KeyOf(s, u)[2] = 0
            \/ \E r \in s.rules : u \in r.scope /\ r.generation = KeyOf(s, u)[2]
<1> DEFINE matching == {r \in s.rules : u \in r.scope}
           last == CHOOSE r \in matching : \A other \in matching : other.generation <= r.generation
<1>1. /\ s.generation \in Nat
      /\ \A r \in s.rules : r.generation \in Nat
      /\ matching # {} => \E r \in matching : \A other \in matching : other.generation <= r.generation
  BY DEF ViewSound, HasLastRule, CacheRule
<1>2. KeyOf(s, u) = <<s.generation, IF matching = {} THEN 0 ELSE last.generation>>
  BY DEF KeyOf
<1>3. matching # {} => last \in matching /\ \A other \in matching : other.generation <= last.generation
  BY <1>1
<1> HIDE DEF last
<1>4. CASE matching = {}
  BY <1>1, <1>2, <1>4 DEF Keys
<1>5. CASE matching # {}
  <2>1. last \in s.rules /\ u \in last.scope /\ last.generation \in Nat
    BY <1>1, <1>3, <1>5
  <2>2. KeyOf(s, u) = <<s.generation, last.generation>>
    BY <1>2, <1>5
  <2>3. \A r \in s.rules : u \in r.scope => r.generation <= last.generation
    BY <1>3, <1>5
  <2> QED
    BY <1>1, <2>1, <2>2, <2>3 DEF Keys
<1> QED
  BY <1>4, <1>5

\* How a site may change: a page's key goes up, or stays with its epoch.
Advance(s, t) ==
  \A u \in Urls :
    /\ s.epoch[u] <= t.epoch[u]
    /\ \/ KeyOf(t, u) = KeyOf(s, u) /\ t.epoch[u] = s.epoch[u]
       \/ KeyBefore(KeyOf(s, u), KeyOf(t, u))

Bounded(s) ==
  /\ s \in Sites /\ ViewSound(s) /\ IsFiniteSet(s.rules) /\ Cardinality(s.rules) <= MaxRules
  /\ \A r \in s.rules : r.generation <= s.version
  /\ Len(s.jobs) <= MaxJobs

LEMMA NextGeneration ==
  ASSUME NEW s, NEW t, ViewSound(s), ViewSound(t), NEW u \in Urls, t.generation > s.generation
  PROVE  KeyBefore(KeyOf(s, u), KeyOf(t, u))
BY KeyIsLast DEF KeyBefore

SiteAs(s, g, R, v, e) == [s EXCEPT !.generation = g, !.rules = R, !.version = v, !.epoch = e]

LEMMA SiteWith ==
  ASSUME NEW s \in Sites, NEW g \in Nat \ {0}, NEW R \in SUBSET CacheRule, NEW v \in Nat,
         NEW e \in Epochs
  PROVE  /\ SiteAs(s, g, R, v, e) \in Sites
         /\ SiteAs(s, g, R, v, e).generation = g /\ SiteAs(s, g, R, v, e).rules = R
         /\ SiteAs(s, g, R, v, e).version = v /\ SiteAs(s, g, R, v, e).epoch = e
         /\ SiteAs(s, g, R, v, e).jobs = s.jobs
<1> DEFINE t == [s EXCEPT !.generation = g, !.rules = R, !.version = v, !.epoch = e]
           S == Seq(OperationIds)
           C == SUBSET CacheRule
<1>1. Sites = [generation : Nat \ {0}, rules : C, jobs : S, version : Nat,
               caching : BOOLEAN, enabled : BOOLEAN, epoch : Epochs]
  BY DEF Sites
<1>2. R \in C
  OBVIOUS
<1> HIDE DEF S, C
<1>3. t \in Sites /\ t.jobs = s.jobs
  BY <1>1, <1>2
<1>4. t.generation = g /\ t.rules = R /\ t.version = v /\ t.epoch = e
  BY <1>1
<1> QED
  BY <1>3, <1>4 DEF SiteAs

\* Invalidating the whole site.
LEMMA InvalidateAll ==
  ASSUME NEW s, Bounded(s), {} \in Scopes
  PROVE  /\ Bounded(Invalidated(s, {})) /\ Advance(s, Invalidated(s, {}))
         /\ Invalidated(s, {}).jobs = s.jobs
         /\ \A u \in Urls : KeyBefore(KeyOf(s, u), KeyOf(Invalidated(s, {}), u))
<1> DEFINE t == SiteAs(s, s.generation + 1, {}, s.version + 1, Counting(s, {}))
<1>1. Invalidated(s, {}) = t
  BY DEF Invalidated, Bounded, Sites, SiteAs
<1>2. s \in Sites /\ ViewSound(s)
  BY DEF Bounded
<1>3. /\ Counting(s, {}) \in Epochs
      /\ \A u \in Urls : s.epoch[u] <= Counting(s, {})[u]
  BY <1>2 DEF Counting, Epochs, Sites
<1>4. /\ t \in Sites /\ t.generation = s.generation + 1 /\ t.rules = {} /\ t.jobs = s.jobs
      /\ t.epoch = Counting(s, {})
  <2>1. /\ s \in Sites /\ s.generation + 1 \in Nat \ {0} /\ s.version + 1 \in Nat
        /\ {} \in SUBSET CacheRule
    BY <1>2 DEF Sites
  <2> QED
    BY <1>3, <2>1, SiteWith
<1> HIDE DEF t
<1>5. ViewSound(t)
  BY <1>2, <1>3, <1>4 DEF ViewSound, HasLastRule, Sites
<1>6. Bounded(t)
  <2>1. IsFiniteSet({}) /\ Cardinality({}) = 0
    BY FS_EmptySet
  <2> QED
    BY <1>4, <1>5, <2>1, CacheConstants DEF Bounded
<1>7. \A u \in Urls : KeyBefore(KeyOf(s, u), KeyOf(t, u))
  BY <1>2, <1>4, <1>5, NextGeneration DEF Sites
<1> QED
  BY <1>1, <1>3, <1>4, <1>6, <1>7 DEF Advance

\* Invalidating the pages of a scope.
LEMMA InvalidateScope ==
  ASSUME NEW s, Bounded(s), NEW scope \in Scopes, scope # {}
  PROVE  /\ Bounded(Invalidated(s, scope)) /\ Advance(s, Invalidated(s, scope))
         /\ Invalidated(s, scope).jobs = s.jobs
         /\ \A u \in scope : KeyBefore(KeyOf(s, u), KeyOf(Invalidated(s, scope), u))
<1> DEFINE others == {r \in s.rules : r.scope # scope}
           full == Cardinality(others) >= MaxRules
           kept == IF full THEN {} ELSE others
           rule == [scope |-> scope, generation |-> s.version + 1]
           t == SiteAs(s, IF full THEN s.generation + 1 ELSE s.generation, kept \union {rule},
                       s.version + 1, Counting(s, scope))
<1>1. Invalidated(s, scope) = t
  BY DEF Invalidated, Bounded, Sites, SiteAs
<1>2. /\ s \in Sites /\ ViewSound(s) /\ IsFiniteSet(s.rules) /\ Cardinality(s.rules) <= MaxRules
      /\ \A r \in s.rules : r.generation <= s.version
      /\ Len(s.jobs) <= MaxJobs
      /\ s.version \in Nat /\ s.generation \in Nat \ {0}
      /\ \A r \in s.rules : r \in CacheRule
  BY DEF Bounded, Sites
<1>3. /\ Counting(s, scope) \in Epochs
      /\ \A u \in Urls : Counting(s, scope)[u] = IF u \in scope THEN s.epoch[u] + 1 ELSE s.epoch[u]
  BY <1>2 DEF Counting, Covered, Epochs, Sites
<1>4. kept \subseteq s.rules /\ (~full => kept = others)
  OBVIOUS
<1>5. IsFiniteSet(kept \union {rule}) /\ Cardinality(kept \union {rule}) <= MaxRules
  <2>1. IsFiniteSet(others) /\ Cardinality(others) \in Nat
    BY <1>2, FS_Subset, FS_CardinalityType
  <2>2. IsFiniteSet(kept) /\ Cardinality(kept) \in Nat /\ Cardinality(kept) < MaxRules
    <3>1. CASE full
      BY <3>1, FS_EmptySet, CacheConstants
    <3>2. CASE ~full
      BY <2>1, <3>2, CacheConstants
    <3> QED
      BY <3>1, <3>2
  <2>3. /\ IsFiniteSet(kept \union {rule})
        /\ Cardinality(kept \union {rule}) =
             IF rule \in kept THEN Cardinality(kept) ELSE Cardinality(kept) + 1
    BY <2>2, FS_AddElement
  <2> QED
    BY <2>2, <2>3, CacheConstants
<1>6. rule \in CacheRule /\ kept \union {rule} \subseteq CacheRule
  BY <1>2, <1>4 DEF CacheRule
<1> HIDE DEF kept, rule, full
<1>7. /\ t \in Sites /\ t.generation = (IF full THEN s.generation + 1 ELSE s.generation)
      /\ t.rules = kept \union {rule} /\ t.version = s.version + 1
      /\ t.jobs = s.jobs /\ t.epoch = Counting(s, scope)
  <2>1. /\ (IF full THEN s.generation + 1 ELSE s.generation) \in Nat \ {0}
        /\ s.version + 1 \in Nat /\ s \in Sites
    BY <1>2
  <2> QED
    BY <1>3, <1>6, <2>1, SiteWith
<1> HIDE DEF t
<1>8. rule.scope = scope /\ rule.generation = s.version + 1
  BY DEF rule
<1>9. \A r \in t.rules : r.generation \in Nat /\ r.generation <= t.version
                        /\ r.generation <= rule.generation
  BY <1>2, <1>4, <1>7, <1>8 DEF CacheRule
<1>10. HasLastRule(t)
  <2> SUFFICES ASSUME NEW u \in Urls, \E r \in t.rules : u \in r.scope
               PROVE  \E r \in t.rules : u \in r.scope /\ \A other \in t.rules :
                        u \in other.scope => other.generation <= r.generation
    BY DEF HasLastRule
  <2>1. CASE u \in scope
    BY <1>7, <1>8, <1>9, <2>1
  <2>2. CASE u \notin scope
    <3>1. \A r \in t.rules : u \in r.scope => r \in kept
      BY <1>7, <1>8, <2>2
    <3>2. kept = others
      BY <3>1 DEF kept
    <3>3. \A r \in s.rules : u \in r.scope => r \in others
      BY <2>2
    <3>4. PICK r \in s.rules : u \in r.scope /\ \A other \in s.rules :
                        u \in other.scope => other.generation <= r.generation
      BY <1>2, <1>4, <3>1 DEF ViewSound, HasLastRule
    <3>5. r \in t.rules
      BY <1>7, <3>2, <3>3, <3>4
    <3> QED
      BY <1>4, <3>1, <3>4, <3>5
  <2> QED
    BY <2>1, <2>2
<1>11. ViewSound(t)
  BY <1>2, <1>3, <1>6, <1>7, <1>10 DEF ViewSound
<1>12. Bounded(t)
  BY <1>2, <1>5, <1>7, <1>9, <1>11 DEF Bounded
<1>13. \A u \in scope : KeyBefore(KeyOf(s, u), KeyOf(t, u))
  <2> SUFFICES ASSUME NEW u \in scope PROVE KeyBefore(KeyOf(s, u), KeyOf(t, u))
    OBVIOUS
  <2>1. u \in Urls
    BY CacheConstants
  <2>2. rule.generation <= KeyOf(t, u)[2]
    BY <1>7, <1>8, <1>11, <2>1, KeyIsLast
  <2>3. KeyOf(s, u)[2] <= s.version
    BY <1>2, <2>1, KeyIsLast
  <2>4. /\ KeyOf(s, u) = <<s.generation, KeyOf(s, u)[2]>> /\ KeyOf(s, u)[2] \in Nat
        /\ KeyOf(t, u) = <<t.generation, KeyOf(t, u)[2]>> /\ KeyOf(t, u)[2] \in Nat
    BY <1>2, <1>11, <2>1, KeyIsLast DEF Keys
  <2>5. KeyOf(s, u)[2] < KeyOf(t, u)[2]
    BY <1>2, <1>8, <2>2, <2>3, <2>4
  <2> QED
    BY <1>2, <1>7, <2>4, <2>5 DEF KeyBefore
<1>14. \A u \in Urls : u \notin scope =>
         KeyOf(t, u) = KeyOf(s, u) \/ KeyBefore(KeyOf(s, u), KeyOf(t, u))
  <2> SUFFICES ASSUME NEW u \in Urls, u \notin scope
               PROVE  KeyOf(t, u) = KeyOf(s, u) \/ KeyBefore(KeyOf(s, u), KeyOf(t, u))
    OBVIOUS
  <2>1. CASE full
    <3>1. t.generation > s.generation
      BY <1>2, <1>7, <2>1
    <3> QED
      BY <1>2, <1>11, <3>1, NextGeneration
  <2>2. CASE ~full
    <3>1. {r \in t.rules : u \in r.scope} = {r \in s.rules : u \in r.scope}
      BY <1>4, <1>7, <1>8, <2>2
    <3> DEFINE K(g, m) == <<g, IF m = {} THEN 0
                               ELSE (CHOOSE r \in m : \A other \in m :
                                       other.generation <= r.generation).generation>>
    <3>2. /\ KeyOf(t, u) = K(t.generation, {r \in t.rules : u \in r.scope})
          /\ KeyOf(s, u) = K(s.generation, {r \in s.rules : u \in r.scope})
      BY DEF KeyOf
    <3>3. t.generation = s.generation
      BY <1>7, <2>2
    <3> HIDE DEF K
    <3> QED
      BY <3>1, <3>2, <3>3
  <2> QED
    BY <2>1, <2>2
<1>15. Advance(s, t)
  <2>1. \A u \in Urls : s.epoch[u] \in Nat
    BY <1>2 DEF Sites, Epochs
  <2> QED
    BY <1>3, <1>7, <1>13, <1>14, <2>1 DEF Advance
<1> QED
  BY <1>1, <1>7, <1>12, <1>13, <1>15

LEMMA InvalidatedAdvances ==
  ASSUME NEW s, Bounded(s), NEW scope \in Scopes
  PROVE  /\ Bounded(Invalidated(s, scope)) /\ Advance(s, Invalidated(s, scope))
         /\ Invalidated(s, scope).jobs = s.jobs
         /\ \A u \in Covered(scope) : KeyBefore(KeyOf(s, u), KeyOf(Invalidated(s, scope), u))
BY InvalidateAll, InvalidateScope DEF Covered

\* Keys are compared in the order of their parts.
LEMMA KeysInOrder ==
  ASSUME NEW k \in Keys, NEW l \in Keys, NEW m \in Keys
  PROVE  /\ ~KeyBefore(k, k)
         /\ KeyBefore(k, l) /\ (l = m \/ KeyBefore(l, m)) => KeyBefore(k, m)
         /\ ~(KeyBefore(k, l) /\ KeyBefore(l, k))
BY DEF KeyBefore, Keys

LEMMA ViewKeys ==
  ASSUME KeysGoUp, NEW s \in CacheViews, NEW u \in Urls
  PROVE  KeyOf(s, u) \in Keys /\ KeyOf(site, u) \in Keys
BY KeyIsLast DEF KeysGoUp, CacheViews

LEMMA EntryTyped ==
  ASSUME CacheShapes, NEW n \in Edges, NEW e \in cached[n]
  PROVE  e.url \in Urls /\ e.key \in Keys /\ e.epoch \in Nat
<1>1. e \in [url : Urls, key : Keys, epoch : Nat]
  BY DEF CacheShapes
<1> QED
  BY <1>1

\* The site changes: whatever was made of it so far stays behind.
LEMMA SiteMoves ==
  ASSUME CacheShapes, KeysGoUp, KeysAgree, UNCHANGED <<publication, staged, running, round, cached>>,
         ViewSound(site'), Advance(site, site'),
         \A r \in retired' : r \in retired \/ (r[1] \in Urls /\ r[2] = KeyOf(site, r[1])
                                              /\ KeyBefore(r[2], KeyOf(site', r[1])))
  PROVE  KeysGoUp' /\ KeysAgree'
<1>1. site \in CacheViews /\ \A s \in CacheViews' : s = site' \/ s \in CacheViews
  BY DEF CacheViews
<1>2. \A s \in CacheViews : ViewSound(s)
  BY DEF KeysGoUp
<1>3. \A u \in Urls : KeyOf(site', u) \in Keys /\ KeyOf(site, u) \in Keys
  BY <1>1, <1>2, KeyIsLast
<1>4. \A u \in Urls : KeyOf(site', u) = KeyOf(site, u) \/ KeyBefore(KeyOf(site, u), KeyOf(site', u))
  BY DEF Advance
<1>5. ASSUME NEW u \in Urls, NEW k \in Keys, k = KeyOf(site, u) \/ KeyBefore(k, KeyOf(site, u))
      PROVE  k = KeyOf(site', u) \/ KeyBefore(k, KeyOf(site', u))
  BY <1>3, <1>4, <1>5, KeysInOrder
<1>6. KeysGoUp'
  <2>1. \A s \in CacheViews' : ViewSound(s)
    BY <1>1, <1>2
  <2>2. ASSUME NEW s \in CacheViews', NEW u \in Urls
        PROVE  KeyOf(s, u) = KeyOf(site', u) \/ KeyBefore(KeyOf(s, u), KeyOf(site', u))
    <3>1. CASE s = site'
      BY <3>1
    <3>2. CASE s \in CacheViews
      BY <1>5, <3>2, ViewKeys DEF KeysGoUp
    <3> QED
      BY <1>1, <3>1, <3>2
  <2>3. ASSUME NEW n \in Edges, NEW e \in cached[n]
        PROVE  e.key = KeyOf(site', e.url) \/ KeyBefore(e.key, KeyOf(site', e.url))
    BY <1>5, EntryTyped DEF KeysGoUp
  <2>4. ASSUME NEW r \in retired'
        PROVE  KeyBefore(r[2], KeyOf(site', r[1]))
    <3>1. CASE r \in retired
      <4>1. r[1] \in Urls /\ r[2] \in Keys
        BY <3>1 DEF CacheShapes
      <4> QED
        BY <1>3, <1>4, <3>1, <4>1, KeysInOrder DEF KeysGoUp
    <3> QED
      BY <2>4, <3>1
  <2> QED
    BY <2>1, <2>2, <2>3, <2>4 DEF KeysGoUp
<1>7. ASSUME NEW t \in CacheViews, NEW u \in Urls, KeyOf(t, u) = KeyOf(site', u)
      PROVE  t.epoch[u] = (site').epoch[u]
  <2>1. CASE KeyOf(site', u) = KeyOf(site, u) /\ (site').epoch[u] = site.epoch[u]
    BY <1>1, <1>7, <2>1 DEF KeysAgree
  <2>2. CASE KeyBefore(KeyOf(site, u), KeyOf(site', u))
    BY <1>3, <1>7, <2>2, KeysInOrder DEF KeysGoUp
  <2> QED
    BY <2>1, <2>2 DEF Advance
<1>8. ASSUME NEW n \in Edges, NEW e \in cached[n], e.key = KeyOf(site', e.url)
      PROVE  e.epoch = (site').epoch[e.url]
  <2>0. e.url \in Urls /\ e.key \in Keys
    BY EntryTyped
  <2>1. CASE KeyOf(site', e.url) = KeyOf(site, e.url) /\ (site').epoch[e.url] = site.epoch[e.url]
    BY <1>1, <1>8, <2>1 DEF KeysAgree
  <2>2. CASE KeyBefore(KeyOf(site, e.url), KeyOf(site', e.url))
    BY <1>3, <1>8, <2>0, <2>2, KeysInOrder DEF KeysGoUp
  <2> QED
    BY <2>0, <2>1, <2>2 DEF Advance
<1>9. KeysAgree'
  <2>1. ASSUME NEW s \in CacheViews', NEW t \in CacheViews', NEW u \in Urls, KeyOf(s, u) = KeyOf(t, u)
        PROVE  s.epoch[u] = t.epoch[u]
    <3>1. CASE s \in CacheViews /\ t \in CacheViews
      BY <2>1, <3>1 DEF KeysAgree
    <3>2. CASE s = site'
      BY <1>1, <1>7, <2>1, <3>2
    <3>3. CASE t = site'
      BY <1>1, <1>7, <2>1, <3>3
    <3> QED
      BY <1>1, <3>1, <3>2, <3>3
  <2>2. ASSUME NEW n \in Edges, NEW e \in cached[n], NEW s \in CacheViews', e.key = KeyOf(s, e.url)
        PROVE  e.epoch = s.epoch[e.url]
    BY <1>1, <1>8, <2>2 DEF KeysAgree
  <2> QED
    BY <2>1, <2>2 DEF KeysAgree
<1> QED
  BY <1>6, <1>9

SameView(s, t) == s.generation = t.generation /\ s.rules = t.rules /\ s.epoch = t.epoch

\* What was made of the site goes to where it was not, and a page that is
\* fetched is kept under the key of what runs, or of nothing.
LEMMA ViewsMove ==
  ASSUME CacheShapes, CacheShapes', KeysGoUp, KeysAgree, UNCHANGED <<site, retired>>,
         \A s \in CacheViews' : \E t \in CacheViews : SameView(s, t),
         \A n \in Edges : \A e \in cached'[n] :
           \/ e \in cached[n]
           \/ e.key = <<0, 0>>
           \/ \E t \in CacheViews : e.key = KeyOf(t, e.url) /\ e.epoch = t.epoch[e.url]
  PROVE  KeysGoUp' /\ KeysAgree'
<1>1. site \in CacheViews /\ \A s \in CacheViews : ViewSound(s)
  BY DEF CacheViews, KeysGoUp
<1>2. \A s \in CacheViews', t \in CacheViews : SameView(s, t) =>
        ViewSound(s) /\ \A u \in Urls : KeyOf(s, u) = KeyOf(t, u) /\ s.epoch[u] = t.epoch[u]
  <2> SUFFICES ASSUME NEW s \in CacheViews', NEW t \in CacheViews, SameView(s, t)
               PROVE  ViewSound(s) /\ \A u \in Urls : KeyOf(s, u) = KeyOf(t, u) /\ s.epoch[u] = t.epoch[u]
    OBVIOUS
  <2>1. ViewSound(t) /\ s.generation = t.generation /\ s.rules = t.rules /\ s.epoch = t.epoch
    BY <1>1 DEF SameView
  <2>2. ViewSound(s)
    BY <2>1 DEF ViewSound, HasLastRule
  <2> QED
    BY <2>1, <2>2, SameKey
<1>3. \A u \in Urls : KeyOf(site, u) \in Keys /\ KeyOf(site, u)[1] > 0
  <2> SUFFICES ASSUME NEW u \in Urls PROVE KeyOf(site, u) \in Keys /\ KeyOf(site, u)[1] > 0
    OBVIOUS
  <2>1. KeyOf(site, u) \in Keys /\ KeyOf(site, u) = <<site.generation, KeyOf(site, u)[2]>>
    BY <1>1, KeyIsLast
  <2> QED
    BY <1>1, <2>1 DEF ViewSound
<1>4. \A t \in CacheViews, u \in Urls : KeyOf(t, u) # <<0, 0>>
  <2> SUFFICES ASSUME NEW t \in CacheViews, NEW u \in Urls PROVE KeyOf(t, u) # <<0, 0>>
    OBVIOUS
  <2>1. KeyOf(t, u) = <<t.generation, KeyOf(t, u)[2]>> /\ t.generation # 0
    BY <1>1, KeyIsLast DEF ViewSound
  <2> QED
    BY <2>1
<1>5. \A n \in Edges : \A e \in cached'[n] : e.url \in Urls /\ e.key \in Keys
  <2> SUFFICES ASSUME NEW n \in Edges, NEW e \in cached'[n] PROVE e.url \in Urls /\ e.key \in Keys
    OBVIOUS
  <2>1. e \in [url : Urls, key : Keys, epoch : Nat]
    BY DEF CacheShapes
  <2> QED
    BY <2>1
<1>6. KeysGoUp'
  <2>1. \A s \in CacheViews' : ViewSound(s)
    BY <1>2
  <2>2. \A s \in CacheViews', u \in Urls :
          KeyOf(s, u) = KeyOf(site, u) \/ KeyBefore(KeyOf(s, u), KeyOf(site, u))
    BY <1>2 DEF KeysGoUp
  <2>3. ASSUME NEW n \in Edges, NEW e \in cached'[n]
        PROVE  e.key = KeyOf(site, e.url) \/ KeyBefore(e.key, KeyOf(site, e.url))
    <3>1. CASE e \in cached[n]
      BY <3>1 DEF KeysGoUp
    <3>2. CASE e.key = <<0, 0>>
      BY <1>3, <1>5, <3>2 DEF KeyBefore, Keys
    <3>3. CASE \E t \in CacheViews : e.key = KeyOf(t, e.url) /\ e.epoch = t.epoch[e.url]
      BY <1>5, <3>3 DEF KeysGoUp
    <3> QED
      BY <3>1, <3>2, <3>3
  <2> QED
    BY <2>1, <2>2, <2>3 DEF KeysGoUp
<1>7. KeysAgree'
  <2>1. \A s, t \in CacheViews' : \A u \in Urls : KeyOf(s, u) = KeyOf(t, u) => s.epoch[u] = t.epoch[u]
    <3> SUFFICES ASSUME NEW s \in CacheViews', NEW t \in CacheViews', NEW u \in Urls, KeyOf(s, u) = KeyOf(t, u)
                 PROVE  s.epoch[u] = t.epoch[u]
      OBVIOUS
    <3>1. PICK a \in CacheViews : SameView(s, a)
      OBVIOUS
    <3>2. PICK b \in CacheViews : SameView(t, b)
      OBVIOUS
    <3>3. /\ KeyOf(s, u) = KeyOf(a, u) /\ s.epoch[u] = a.epoch[u]
          /\ KeyOf(t, u) = KeyOf(b, u) /\ t.epoch[u] = b.epoch[u]
      BY <1>2, <3>1, <3>2
    <3>4. KeyOf(a, u) = KeyOf(b, u)
      BY <3>3
    <3>5. a.epoch[u] = b.epoch[u]
      BY <3>4, Zenon DEF KeysAgree
    <3> QED
      BY <3>3, <3>5
  <2>2. ASSUME NEW n \in Edges, NEW e \in cached'[n], NEW s \in CacheViews', e.key = KeyOf(s, e.url)
        PROVE  e.epoch = s.epoch[e.url]
    <3>1. PICK a \in CacheViews : SameView(s, a)
      OBVIOUS
    <3>2. e.url \in Urls /\ KeyOf(s, e.url) = KeyOf(a, e.url) /\ s.epoch[e.url] = a.epoch[e.url]
      BY <1>2, <1>5, <3>1
    <3>3. CASE e \in cached[n]
      BY <2>2, <3>2, <3>3 DEF KeysAgree
    <3>4. CASE e.key = <<0, 0>>
      BY <1>4, <2>2, <3>2, <3>4
    <3>5. CASE \E t \in CacheViews : e.key = KeyOf(t, e.url) /\ e.epoch = t.epoch[e.url]
      BY <2>2, <3>2, <3>5 DEF KeysAgree
    <3> QED
      BY <3>3, <3>4, <3>5
  <2> QED
    BY <2>1, <2>2 DEF KeysAgree
<1> QED
  BY <1>6, <1>7

\* An invariant of the keys: what an edge serves is as new as what it runs.
LEMMA HitsAreFresh ==
  ASSUME CacheShapes, KeysGoUp, KeysAgree
  PROVE  RetiredKeysStay /\ NoStaleHits
<1>1. RetiredKeysStay
  <2> SUFFICES ASSUME NEW r \in retired PROVE KeyOf(site, r[1]) # r[2]
    BY DEF RetiredKeysStay
  <2>1. r[1] \in Urls /\ r[2] \in Keys /\ KeyBefore(r[2], KeyOf(site, r[1]))
    BY DEF CacheShapes, KeysGoUp
  <2> QED
    BY <2>1, KeysInOrder
<1>2. NoStaleHits
  <2> SUFFICES ASSUME NEW n \in Edges, NEW e \in cached[n], e.key = KeyOf(running[n], e.url)
               PROVE  e.epoch >= running[n].epoch[e.url]
    BY DEF NoStaleHits
  <2>1. running[n] \in CacheViews
    BY DEF CacheViews
  <2>2. e.epoch = running[n].epoch[e.url] /\ e.epoch \in Nat
    BY <2>1, EntryTyped DEF KeysAgree
  <2> QED
    BY <2>2
<1> QED
  BY <1>1, <1>2

-------------------------------------------------------------------------------
(* What stays *)

\* Operations are added, and what they are about does not change.
OpsGrow ==
  /\ DOMAIN ops \subseteq DOMAIN ops'
  /\ \A o \in DOMAIN ops : ops'[o].paths = ops[o].paths /\ ops'[o].epoch = ops[o].epoch

LEMMA OpsDomain ==
  ASSUME CacheShapes
  PROVE  /\ DOMAIN ops = 1..Len(ops) /\ Len(ops) \in Nat /\ DOMAIN ops \subseteq OperationIds
         /\ \A o \in DOMAIN ops : ops[o] \in Operations
<1>1. ops \in Seq(Operations) /\ Len(ops) <= MaxOperations
  BY DEF CacheShapes
<1>2. DOMAIN ops = 1..Len(ops) /\ Len(ops) \in Nat
  BY <1>1, LenProperties
<1>3. \A o \in 1..Len(ops) : ops[o] \in Operations
  BY <1>1, ElementOfSeq
<1> QED
  BY <1>1, <1>2, <1>3, CacheConstants DEF OperationIds

LEMMA OpsDomainNext ==
  ASSUME CacheShapes'
  PROVE  /\ DOMAIN ops' = 1..Len(ops') /\ Len(ops') \in Nat /\ DOMAIN ops' \subseteq OperationIds
         /\ \A o \in DOMAIN ops' : ops'[o] \in Operations
<1>1. ops' \in Seq(Operations) /\ Len(ops') <= MaxOperations
  BY DEF CacheShapes
<1>2. DOMAIN ops' = 1..Len(ops') /\ Len(ops') \in Nat
  BY <1>1, LenProperties
<1>3. \A o \in 1..Len(ops') : ops'[o] \in Operations
  BY <1>1, ElementOfSeq
<1> QED
  BY <1>1, <1>2, <1>3, CacheConstants DEF OperationIds

LEMMA RowTyped ==
  ASSUME CacheShapes, NEW o \in DOMAIN ops, NEW n \in Edges
  PROVE  /\ ops[o].rows[n] \in Row /\ ops[o].rows[n].run \in 0..MaxRuns
         /\ ops[o].rows[n].target \in Nat /\ ops[o].epoch \in Epochs
         /\ ops[o].paths \subseteq Urls
<1>1. ops[o] \in Operations
  BY OpsDomain
<1>2. ops[o].rows[n] \in Row /\ ops[o].epoch \in Epochs /\ ops[o].paths \subseteq Urls
  BY <1>1 DEF Operations
<1>3. ops[o].rows[n].run \in 0..MaxRuns /\ ops[o].rows[n].target \in Nat
  BY <1>2 DEF Row
<1> QED
  BY <1>2, <1>3

LEMMA EdgeTyped ==
  ASSUME CacheShapes, NEW n \in Edges
  PROVE  /\ staged[n] \in [content : Content, jobs : Seq(OperationIds), version : Nat]
         /\ staged[n].content \in Content /\ staged[n].jobs \in Seq(OperationIds)
         /\ staged[n].version \in Nat
         /\ heard[n].version \in Nat /\ heard[n].capable \in BOOLEAN
         /\ running[n] \in Content /\ running[n].epoch \in Epochs
         /\ disk[n] \in [applied : Nat, completed : SUBSET OperationIds, pending : SUBSET Results]
         /\ disk[n].applied \in Nat /\ disk[n].completed \subseteq OperationIds
         /\ disk[n].pending \subseteq Results
         /\ round[n] \in Rounds /\ beat[n] \in Beats
         /\ lastRun[n] \in [OperationIds -> 0..MaxRuns]
<1>1. /\ staged[n] \in [content : Content, jobs : Seq(OperationIds), version : Nat]
      /\ heard[n] \in [capable : BOOLEAN, version : Nat]
      /\ running[n] \in Content
      /\ disk[n] \in [applied : Nat, completed : SUBSET OperationIds, pending : SUBSET Results]
      /\ round[n] \in Rounds /\ beat[n] \in Beats
      /\ lastRun[n] \in [OperationIds -> 0..MaxRuns]
  BY DEF CacheShapes
<1>2. running[n].epoch \in Epochs
  BY <1>1 DEF Content, Epochs
<1>3. /\ staged[n].content \in Content /\ staged[n].jobs \in Seq(OperationIds)
      /\ staged[n].version \in Nat
  BY <1>1
<1>4. /\ disk[n].applied \in Nat /\ disk[n].completed \subseteq OperationIds
      /\ disk[n].pending \subseteq Results
  BY <1>1
<1>5. heard[n].version \in Nat /\ heard[n].capable \in BOOLEAN
  BY <1>1
<1> QED
  BY <1>1, <1>2, <1>3, <1>4, <1>5

LEMMA RoundTyped ==
  ASSUME NEW r \in Rounds
  PROVE  /\ r.at \in {"idle", "run", "save", "persist"} /\ r.list \in Seq(OperationIds)
         /\ r.version \in Nat /\ r.before \subseteq Content /\ r.done \subseteq OperationIds
         /\ r.results \subseteq Results /\ r.failed \in Nat
<1> DEFINE S == Seq(OperationIds)
           B == SUBSET Content
           R == SUBSET Results
<1>1. Rounds = [at : {"idle", "run", "save", "persist"}, list : S, version : Nat,
           before : B, done : SUBSET OperationIds, results : R, failed : Nat]
  BY DEF Rounds
<1> HIDE DEF S, B, R
<1>2. r.list \in S /\ r.before \in B /\ r.results \in R
  BY <1>1
<1>3. r.at \in {"idle", "run", "save", "persist"} /\ r.version \in Nat /\ r.failed \in Nat
      /\ r.done \subseteq OperationIds
  BY <1>1
<1> QED
  BY <1>2, <1>3 DEF S, B, R

LEMMA BeatTyped ==
  ASSUME NEW b \in Beats
  PROVE  /\ b.at \in {"none", "sent", "handled"} /\ b.version \in Nat /\ b.failed \in Nat
         /\ b.results \subseteq Results
BY DEF Beats

LEMMA ResultTyped ==
  ASSUME NEW r \in Results
  PROVE  r.job \in OperationIds /\ r.status \in Reported /\ r.run \in 0..MaxRuns
BY DEF Results

LEMMA KeysStay ==
  ASSUME KeysGoUp, KeysAgree, UNCHANGED <<site, publication, staged, running, cached, retired>>,
         \A n \in Edges : round'[n].before = round[n].before
  PROVE  KeysGoUp' /\ KeysAgree'
<1>1. CacheViews' = CacheViews
  BY DEF CacheViews
<1> QED
  BY <1>1 DEF KeysGoUp, KeysAgree

LEMMA JobsStay ==
  ASSUME JobsFollow, OpsGrow, UNCHANGED <<site, publication, staged, running>>,
         \A n \in Edges : round'[n].at # "idle" =>
                            round[n].at # "idle" /\ round'[n].list = round[n].list
  PROVE  JobsFollow'
<1>1. \A e, jobs : JobsWithin(e, jobs) => JobsWithin(e, jobs)'
  BY DEF JobsWithin, OpsGrow
<1> QED
  BY <1>1 DEF JobsFollow

LEMMA WarmMoves ==
  ASSUME WarmSound, OpsGrow, \A n \in Edges : cached[n] \subseteq cached'[n],
         \A n \in Edges : \A r \in AllResults(n)' :
           \/ r \in AllResults(n)
           \/ r.job \in DOMAIN ops /\ (r.status = "succeeded" => Warmed(n, r.job)'),
         \A n \in Edges : \A o \in DOMAIN ops' : ops'[o].rows[n].warm = "succeeded" =>
           \/ o \in DOMAIN ops /\ ops[o].rows[n].warm = "succeeded"
           \/ \E r \in AllResults(n) : r.job = o /\ r.status = "succeeded"
  PROVE  WarmSound'
<1>1. ASSUME NEW n \in Edges, NEW o \in DOMAIN ops, Warmed(n, o) PROVE Warmed(n, o)'
  BY <1>1 DEF Warmed, OpsGrow
<1>2. ASSUME NEW n \in Edges, NEW r \in AllResults(n)'
      PROVE  r.job \in DOMAIN ops' /\ (r.status = "succeeded" => Warmed(n, r.job)')
  BY <1>1 DEF WarmSound, OpsGrow
<1>3. ASSUME NEW n \in Edges, NEW o \in DOMAIN ops', ops'[o].rows[n].warm = "succeeded"
      PROVE  Warmed(n, o)'
  BY <1>1, <1>3 DEF WarmSound
<1> QED
  BY <1>2, <1>3 DEF WarmSound

\* Nothing happens to an edge's results.
LEMMA RunsStay ==
  ASSUME CacheShapes, CacheShapes', WarmSound, OpsGrow, NEW n \in Edges,
         RunsOrdered(n), LastRunsKept(n),
         \A o \in DOMAIN ops : ops'[o].rows[n].run = ops[o].rows[n].run,
         \A o \in DOMAIN ops' \ DOMAIN ops : ops'[o].rows[n].run = 0,
         disk'[n] = disk[n], beat'[n] = beat[n], lastRun'[n] = lastRun[n],
         round'[n] = round[n], used'.runs >= used.runs
  PROVE  RunsOrdered(n)' /\ LastRunsKept(n)'
<1>1. \A p \in AllResults(n) : p.job \in DOMAIN ops
  BY DEF WarmSound
<1>2. DOMAIN ops' \subseteq OperationIds /\ \A job \in OperationIds : lastRun[n][job] \in Nat
      /\ used.runs \in Nat /\ used'.runs \in Nat
  <2>1. DOMAIN ops' \subseteq OperationIds
    BY OpsDomainNext
  <2>2. used \in [edits : Nat, runs : 0..MaxRuns, faults : Nat]
        /\ used' \in [edits : Nat, runs : 0..MaxRuns, faults : Nat]
    BY DEF CacheShapes
  <2> QED
    BY <2>1, <2>2, EdgeTyped, CacheConstants
<1>3. RunsOrdered(n)'
  <2>1. \A job \in OperationIds : lastRun'[n][job] <= used'.runs
    BY <1>2 DEF RunsOrdered
  <2>2. \A o \in DOMAIN ops' : ops'[o].rows[n].run <= lastRun'[n][o]
    BY <1>2 DEF RunsOrdered
  <2>3. /\ OneEach(round'[n].results) /\ OneEach(disk'[n].pending) /\ OneEach(beat'[n].results)
        /\ \A p \in round'[n].results : p.run = lastRun'[n][p.job]
    BY DEF RunsOrdered
  <2>4. \A p \in disk'[n].pending :
          ops'[p.job].rows[n].run <= p.run /\ p.run <= lastRun'[n][p.job]
    BY <1>1 DEF RunsOrdered, AllResults
  <2>5. \A p \in beat'[n].results :
          /\ p.run <= lastRun'[n][p.job]
          /\ beat'[n].at = "sent" => ops'[p.job].rows[n].run <= p.run
          /\ beat'[n].at = "handled" => ops'[p.job].rows[n].run = p.run
          /\ \A q \in disk'[n].pending : q.job = p.job => p.run <= q.run
    BY <1>1 DEF RunsOrdered, AllResults
  <2> QED
    BY <2>1, <2>2, <2>3, <2>4, <2>5 DEF RunsOrdered
<1>4. LastRunsKept(n)'
  <2>1. \A job \in DOMAIN ops : Kept(n, job) => Kept(n, job)'
    BY DEF Kept
  <2> QED
    BY <2>1 DEF LastRunsKept, OpsGrow
<1> QED
  BY <1>3, <1>4

-------------------------------------------------------------------------------
(* Operations are created *)

LEMMA SiteTyped ==
  ASSUME NEW s \in Sites
  PROVE  /\ s.generation \in Nat \ {0} /\ s.rules \subseteq CacheRule
         /\ s.jobs \in Seq(OperationIds) /\ s.version \in Nat /\ s.epoch \in Epochs
         /\ s.enabled \in BOOLEAN /\ s.caching \in BOOLEAN
<1> DEFINE S == Seq(OperationIds)
           C == SUBSET CacheRule
<1>1. Sites = [generation : Nat \ {0}, rules : C, jobs : S, version : Nat,
               caching : BOOLEAN, enabled : BOOLEAN, epoch : Epochs]
  BY DEF Sites
<1> HIDE DEF S, C
<1>2. s.rules \in C /\ s.jobs \in S
  BY <1>1
<1>3. s.generation \in Nat \ {0} /\ s.version \in Nat /\ s.epoch \in Epochs
      /\ s.enabled \in BOOLEAN /\ s.caching \in BOOLEAN
  BY <1>1
<1> QED
  BY <1>2, <1>3 DEF S, C

LEMMA SitesBounded ==
  ASSUME CacheInv
  PROVE  Bounded(site) /\ site \in Sites /\ publication \in Sites
<1>1. site \in Sites /\ publication \in Sites
  BY DEF CacheInv, CacheShapes
<1>2. ViewSound(site)
  BY DEF CacheInv, KeysGoUp, CacheViews
<1> QED
  BY <1>1, <1>2 DEF CacheInv, SiteSound, Bounded

\* The jobs of a site after one more: those it had, and the new one.
LEMMA JobAdded ==
  ASSUME NEW s, Bounded(s), NEW job \in OperationIds
  PROVE  /\ Bounded(WithJob(s, job)) /\ Advance(s, WithJob(s, job))
         /\ WithJob(s, job).version = s.version /\ WithJob(s, job).epoch = s.epoch
         /\ SameView(WithJob(s, job), s)
         /\ \A i \in DOMAIN WithJob(s, job).jobs :
              WithJob(s, job).jobs[i] = job
              \/ \E k \in DOMAIN s.jobs : WithJob(s, job).jobs[i] = s.jobs[k]
<1> DEFINE left == IF Len(s.jobs) >= MaxJobs
                   THEN SubSeq(s.jobs, Len(s.jobs) - MaxJobs + 2, Len(s.jobs)) ELSE s.jobs
           jobs == Append(left, job)
           t == [s EXCEPT !.jobs = jobs]
           S == Seq(OperationIds)
           C == SUBSET CacheRule
<1>1. s \in Sites /\ s.jobs \in S /\ Len(s.jobs) <= MaxJobs
  BY SiteTyped DEF Bounded
<1>2. Len(s.jobs) \in Nat /\ DOMAIN s.jobs = 1..Len(s.jobs)
  BY <1>1, LenProperties
<1>3. /\ left \in S /\ Len(left) < MaxJobs /\ Len(left) \in Nat
      /\ \A i \in 1..Len(left) : \E k \in DOMAIN s.jobs : left[i] = s.jobs[k]
  <2>1. CASE Len(s.jobs) >= MaxJobs
    <3> DEFINE m == Len(s.jobs) - MaxJobs + 2
    <3>1. Len(s.jobs) = MaxJobs /\ m = 2 /\ m \in Nat
      BY <1>1, <1>2, <2>1, CacheConstants
    <3>2. left = SubSeq(s.jobs, 2, Len(s.jobs))
      BY <2>1, <3>1
    <3>3. CASE MaxJobs = 1
      <4>1. SubSeq(s.jobs, 2, Len(s.jobs)) = <<>>
        BY <1>1, <3>1, <3>3, SubSeqProperties
      <4>2. left = <<>> /\ Len(left) = 0 /\ left \in S
        BY <3>2, <4>1, EmptySeq
      <4> QED
        BY <3>3, <4>2
    <3>4. CASE MaxJobs > 1
      <4>1. /\ left \in S /\ Len(left) = MaxJobs - 1
            /\ \A i \in 1..(MaxJobs - 1) : left[i] = s.jobs[2 + i - 1]
        BY <1>1, <1>2, <3>1, <3>2, <3>4, SubSeqProperties, CacheConstants
      <4>2. \A i \in 1..(MaxJobs - 1) : 2 + i - 1 \in DOMAIN s.jobs
        BY <1>2, <3>1, CacheConstants
      <4> QED
        BY <4>1, <4>2, CacheConstants
    <3> QED
      BY <3>3, <3>4, CacheConstants
  <2>2. CASE ~(Len(s.jobs) >= MaxJobs)
    BY <1>1, <1>2, <2>2, CacheConstants
  <2> QED
    BY <2>1, <2>2
<1> HIDE DEF left
<1>4. /\ jobs \in S /\ Len(jobs) = Len(left) + 1 /\ jobs[Len(left) + 1] = job
      /\ \A i \in 1..Len(left) : jobs[i] = left[i]
      /\ DOMAIN jobs = 1..(Len(left) + 1)
  <2>1. jobs \in S /\ Len(jobs) = Len(left) + 1 /\ jobs[Len(left) + 1] = job
        /\ \A i \in 1..Len(left) : jobs[i] = left[i]
    BY <1>3, AppendProperties
  <2> QED
    BY <1>3, <2>1, LenProperties
<1>5. \A i \in DOMAIN jobs : jobs[i] = job \/ \E k \in DOMAIN s.jobs : jobs[i] = s.jobs[k]
  BY <1>3, <1>4
<1>6. WithJob(s, job) = t
  BY DEF WithJob, left
<1>7. Sites = [generation : Nat \ {0}, rules : C, jobs : S, version : Nat,
               caching : BOOLEAN, enabled : BOOLEAN, epoch : Epochs]
  BY DEF Sites
<1>8. Len(jobs) <= MaxJobs
  BY <1>3, <1>4, CacheConstants
<1> HIDE DEF jobs, S, C
<1>9. /\ t \in Sites /\ t.jobs = jobs /\ t.version = s.version /\ t.epoch = s.epoch
      /\ t.generation = s.generation /\ t.rules = s.rules
  BY <1>1, <1>4, <1>7
<1> HIDE DEF t
<1>10. Bounded(t)
  BY <1>8, <1>9 DEF Bounded, ViewSound, HasLastRule
<1>11. Advance(s, t)
  <2>1. \A u \in Urls : s.epoch[u] \in Nat
    BY <1>1, SiteTyped DEF Epochs
  <2> QED
    BY <1>9, <2>1, SameKey DEF Advance
<1> QED
  BY <1>5, <1>6, <1>9, <1>10, <1>11 DEF SameView

LEMMA NewOperationTyped ==
  ASSUME CacheShapes, (site').epoch \in Epochs, NEW scope \in Scopes, NEW paths \in SUBSET Urls
  PROVE  LET op == NewOperation(scope, paths) IN
         /\ op \in Operations /\ op.paths = paths /\ op.epoch = (site').epoch
         /\ op.task = "none" /\ ~op.attached
         /\ \A n \in Edges : /\ op.rows[n].conf = "not_targeted" /\ op.rows[n].run = 0
                             /\ op.rows[n].warm # "succeeded"
                             /\ op.rows[n].warm = "not_requested" => paths = {}
<1> DEFINE warm(n) == CASE paths = {} -> "not_requested"
                        [] heard[n].capable -> "pending"
                        [] OTHER -> "unsupported"
           rows == [n \in Edges |-> [NoRow EXCEPT !.warm = warm(n)]]
           op == [scope |-> scope, paths |-> paths, failed |-> FALSE, task |-> "none",
                  attached |-> FALSE, overdue |-> FALSE, epoch |-> (site').epoch, rows |-> rows]
<1>1. NewOperation(scope, paths) = op
  BY DEF NewOperation
<1>2. ASSUME NEW n \in Edges
      PROVE  /\ warm(n) \in {"not_requested", "pending", "unsupported"}
             /\ warm(n) = "not_requested" => paths = {}
  <2>1. heard[n].capable \in BOOLEAN
    BY EdgeTyped
  <2> QED
    BY <2>1
<1>3. ASSUME NEW n \in Edges
      PROVE  /\ rows[n] \in Row /\ rows[n].conf = "not_targeted" /\ rows[n].run = 0
             /\ rows[n].warm = warm(n)
  <2>1. 0 \in 0..MaxRuns
    BY CacheConstants
  <2>2. rows[n] = [conf |-> "not_targeted", target |-> 0, warm |-> warm(n), run |-> 0]
    BY DEF NoRow
  <2> HIDE DEF rows
  <2> QED
    BY <1>2, <2>1, <2>2 DEF Row
<1>4. rows \in [Edges -> Row]
  BY <1>3
<1> HIDE DEF warm, rows
<1>5. op \in Operations
  BY <1>4 DEF Operations
<1> QED
  BY <1>1, <1>2, <1>3, <1>5

\* What an operation adds to the rows and changes of the site.
LEMMA OperationAdded ==
  ASSUME CacheInv, NEW op \in Operations, Len(ops) < MaxOperations,
         ops' = Append(ops, op), underway' = Len(ops) + 1,
         UNCHANGED <<publication, staged, lastTask, heard, running, disk, round, beat, cached,
                     lastRun, used>>,
         op.epoch = (site').epoch, op.task = "none", ~op.attached,
         \A n \in Edges : /\ op.rows[n].conf = "not_targeted" /\ op.rows[n].run = 0
                          /\ op.rows[n].warm # "succeeded"
                          /\ op.rows[n].warm = "not_requested" => op.paths = {},
         Bounded(site'), Advance(site, site'),
         \A i \in DOMAIN (site').jobs : (site').jobs[i] = Len(ops) + 1
              \/ \E k \in DOMAIN site.jobs : (site').jobs[i] = site.jobs[k],
         \A r \in retired' : r \in retired \/ \E u \in Urls :
              r = <<u, KeyOf(site, u)>> /\ KeyBefore(KeyOf(site, u), KeyOf(site', u))
  PROVE  CacheInv'
<1> USE DEF CacheInv
<1>1. /\ ops' \in Seq(Operations) /\ Len(ops') = Len(ops) + 1 /\ Len(ops) \in Nat
      /\ DOMAIN ops = 1..Len(ops) /\ DOMAIN ops' = 1..(Len(ops) + 1)
      /\ \A o \in DOMAIN ops : ops'[o] = ops[o]
      /\ ops'[Len(ops) + 1] = op
  <2>1. ops \in Seq(Operations) /\ DOMAIN ops = 1..Len(ops) /\ Len(ops) \in Nat
    BY OpsDomain DEF CacheShapes
  <2>2. /\ ops' \in Seq(Operations) /\ Len(ops') = Len(ops) + 1
        /\ \A o \in 1..Len(ops) : ops'[o] = ops[o]
        /\ ops'[Len(ops) + 1] = op
    BY <2>1, AppendProperties
  <2> QED
    BY <2>1, <2>2, LenProperties
<1>2. OpsGrow
  BY <1>1 DEF OpsGrow
<1>4. CacheShapes'
  <2>1. site' \in Sites /\ Len(ops') <= MaxOperations
    BY <1>1, CacheConstants DEF Bounded
  <2>2. underway' \in 0..Len(ops') /\ lastTask' \in 0..Len(ops')
    BY <1>1 DEF CacheShapes
  <2>3. retired' \subseteq Urls \X Keys
    <3> SUFFICES ASSUME NEW r \in retired' PROVE r \in Urls \X Keys
      OBVIOUS
    <3>1. CASE r \in retired
      BY <3>1 DEF CacheShapes
    <3>2. CASE r \notin retired
      <4>1. PICK u \in Urls : r = <<u, KeyOf(site, u)>>
        BY <3>2
      <4>2. KeyOf(site, u) \in Keys
        BY SitesBounded, KeyIsLast DEF Bounded
      <4> QED
        BY <4>1, <4>2
    <3> QED
      BY <3>1, <3>2
  <2> QED
    BY <1>1, <2>1, <2>2, <2>3 DEF CacheShapes
<1>5. SiteSound'
  BY DEF SiteSound, Bounded
<1>6. KeysGoUp' /\ KeysAgree'
  <2>1. \A r \in retired' : r \in retired \/ (r[1] \in Urls /\ r[2] = KeyOf(site, r[1])
                                              /\ KeyBefore(r[2], KeyOf(site', r[1])))
    OBVIOUS
  <2> QED
    BY <2>1, SiteMoves DEF Bounded
<1>7. JobsFollow'
  <2>1. \A e, jobs : JobsWithin(e, jobs) => JobsWithin(e, jobs)'
    BY <1>2 DEF JobsWithin, OpsGrow
  <2>2. JobsWithin(site.epoch, site.jobs)'
    <3> SUFFICES ASSUME NEW i \in DOMAIN (site').jobs
                 PROVE  /\ (site').jobs[i] \in DOMAIN ops'
                        /\ \A u \in Urls : ops'[(site').jobs[i]].epoch[u] <= (site').epoch[u]
      BY DEF JobsWithin
    <3>0. \A u \in Urls : (site').epoch[u] \in Nat /\ site.epoch[u] \in Nat
                          /\ site.epoch[u] <= (site').epoch[u]
      BY SitesBounded, SiteTyped DEF Bounded, Advance, Epochs
    <3>1. CASE (site').jobs[i] = Len(ops) + 1
      BY <1>1, <3>0, <3>1
    <3>2. CASE \E k \in DOMAIN site.jobs : (site').jobs[i] = site.jobs[k]
      <4>1. PICK k \in DOMAIN site.jobs : (site').jobs[i] = site.jobs[k]
        BY <3>2
      <4>2. /\ site.jobs[k] \in DOMAIN ops
            /\ \A u \in Urls : ops[site.jobs[k]].epoch[u] <= site.epoch[u]
        BY DEF JobsFollow, JobsWithin
      <4>3. \A u \in Urls : ops[site.jobs[k]].epoch[u] \in Nat
        BY <4>2, OpsDomain DEF Operations, Epochs
      <4> QED
        BY <1>1, <3>0, <4>1, <4>2, <4>3
    <3> QED
      BY <3>1, <3>2
  <2> QED
    BY <2>1, <2>2 DEF JobsFollow
<1>8. VersionsRise'
  BY DEF VersionsRise
<1>9. RowsSound'
  <2>1. ASSUME NEW o \in DOMAIN ops'
        PROVE  o \in DOMAIN ops \/ o = Len(ops) + 1
    BY <1>1
  <2> QED
    BY <1>1, <2>1 DEF RowsSound
<1>10. WarmSound'
  <2>1. \A n \in Edges : AllResults(n)' = AllResults(n)
    BY DEF AllResults
  <2>2. ASSUME NEW o \in DOMAIN ops', NEW n \in Edges, ops'[o].rows[n].warm = "succeeded"
        PROVE  o \in DOMAIN ops /\ ops[o].rows[n].warm = "succeeded"
    BY <1>1, <2>2
  <2> QED
    BY <1>2, <2>1, <2>2, WarmMoves
<1>11. RunsKept'
  <2> SUFFICES ASSUME NEW n \in Edges PROVE RunsOrdered(n)' /\ LastRunsKept(n)'
    BY DEF RunsKept
  <2>1. \A o \in DOMAIN ops' \ DOMAIN ops : ops'[o].rows[n].run = 0
    BY <1>1
  <2>2. used'.runs >= used.runs
    BY DEF CacheShapes
  <2> QED
    BY <1>1, <1>2, <1>4, <2>1, <2>2, RunsStay DEF RunsKept
<1> QED
  BY <1>4, <1>5, <1>6, <1>7, <1>8, <1>9, <1>10, <1>11

LEMMA InvalidateKeeps == ASSUME CacheInv, Invalidate PROVE CacheInv'
<1>0. PICK scope \in Scopes : \E paths \in {{}, Covered(scope)} :
        /\ site' = IF paths = {} THEN Invalidated(site, scope)
                   ELSE WithJob(Invalidated(site, scope), Len(ops) + 1)
        /\ ops' = Append(ops, NewOperation(scope, paths))
        /\ retired' = retired \union {<<u, KeyOf(site, u)>> : u \in Covered(scope)}
  BY DEF Invalidate
<1>1. PICK paths \in {{}, Covered(scope)} :
        /\ site' = IF paths = {} THEN Invalidated(site, scope)
                   ELSE WithJob(Invalidated(site, scope), Len(ops) + 1)
        /\ ops' = Append(ops, NewOperation(scope, paths))
        /\ retired' = retired \union {<<u, KeyOf(site, u)>> : u \in Covered(scope)}
  BY <1>0
<1> DEFINE next == Invalidated(site, scope)
<1>2. /\ Bounded(next) /\ Advance(site, next) /\ next.jobs = site.jobs
      /\ \A u \in Covered(scope) : KeyBefore(KeyOf(site, u), KeyOf(next, u))
  BY SitesBounded, InvalidatedAdvances
<1>3. Covered(scope) \subseteq Urls /\ paths \subseteq Urls
  BY CacheConstants DEF Covered
<1>4. Len(ops) \in Nat /\ Len(ops) < MaxOperations /\ Len(ops) + 1 \in OperationIds
  BY OpsDomain, CacheConstants DEF Invalidate, CacheInv, OperationIds
<1> HIDE DEF next
<1>5. /\ Bounded(site') /\ Advance(site, site')
      /\ \A u \in Covered(scope) : KeyBefore(KeyOf(site, u), KeyOf(site', u))
      /\ \A i \in DOMAIN (site').jobs : (site').jobs[i] = Len(ops) + 1
              \/ \E k \in DOMAIN site.jobs : (site').jobs[i] = site.jobs[k]
  <2>1. CASE paths = {}
    <3>1. site' = next
      BY <1>1, <2>1 DEF next
    <3> QED
      BY <1>2, <3>1
  <2>2. CASE paths # {}
    <3> DEFINE more == WithJob(next, Len(ops) + 1)
    <3>1. site' = more
      BY <1>1, <2>2 DEF next
    <3>2. /\ Bounded(more) /\ more.epoch = next.epoch /\ SameView(more, next)
          /\ \A i \in DOMAIN more.jobs : more.jobs[i] = Len(ops) + 1
              \/ \E k \in DOMAIN next.jobs : more.jobs[i] = next.jobs[k]
      BY <1>2, <1>4, JobAdded
    <3> HIDE DEF more
    <3>3. \A u \in Urls : KeyOf(more, u) = KeyOf(next, u)
      BY <3>2, SameKey DEF SameView
    <3>4. Advance(site, more)
      BY <1>2, <3>2, <3>3 DEF Advance
    <3> QED
      BY <1>2, <1>3, <3>1, <3>2, <3>3, <3>4
  <2> QED
    BY <2>1, <2>2
<1>6. (site').epoch \in Epochs
  BY <1>5, SiteTyped DEF Bounded
<1> DEFINE op == NewOperation(scope, paths)
<1>7. /\ op \in Operations /\ op.paths = paths /\ op.epoch = (site').epoch
      /\ op.task = "none" /\ ~op.attached
      /\ \A n \in Edges : /\ op.rows[n].conf = "not_targeted" /\ op.rows[n].run = 0
                          /\ op.rows[n].warm # "succeeded"
                          /\ op.rows[n].warm = "not_requested" => paths = {}
  <2>1. CacheShapes /\ paths \in SUBSET Urls
    BY <1>3 DEF CacheInv
  <2> QED
    BY <1>6, <2>1, NewOperationTyped
<1>8. ops' = Append(ops, op)
  BY <1>1
<1>9. \A r \in retired' : r \in retired \/ \E u \in Urls :
              r = <<u, KeyOf(site, u)>> /\ KeyBefore(KeyOf(site, u), KeyOf(site', u))
  BY <1>1, <1>3, <1>5
<1> HIDE DEF op
<1>10. underway' = Len(ops) + 1
       /\ UNCHANGED <<publication, staged, lastTask, heard, running, disk, round, beat, cached,
                      lastRun, used>>
  BY DEF Invalidate
<1> QED
  BY <1>4, <1>5, <1>7, <1>8, <1>9, <1>10, OperationAdded

LEMMA RetryPrewarmKeeps == ASSUME CacheInv, RetryPrewarm PROVE CacheInv'
<1> DEFINE next == WithJob(site, Len(ops) + 1)
<1>1. PICK o \in DOMAIN ops : /\ site' = [next EXCEPT !.version = @ + 1]
                              /\ ops' = Append(ops, NewOperation(ops[o].scope, ops[o].paths))
  BY DEF RetryPrewarm
<1>2. Len(ops) \in Nat /\ Len(ops) < MaxOperations /\ Len(ops) + 1 \in OperationIds
  BY OpsDomain, CacheConstants DEF RetryPrewarm, CacheInv, OperationIds
<1>3. /\ Bounded(next) /\ Advance(site, next) /\ SameView(next, site)
      /\ \A i \in DOMAIN next.jobs : next.jobs[i] = Len(ops) + 1
              \/ \E k \in DOMAIN site.jobs : next.jobs[i] = site.jobs[k]
  BY <1>2, SitesBounded, JobAdded
<1> HIDE DEF next
<1>4. /\ site' \in Sites /\ site'.generation = next.generation /\ site'.rules = next.rules
      /\ site'.version = next.version + 1 /\ site'.epoch = next.epoch /\ site'.jobs = next.jobs
  <2>1. next \in Sites /\ next.generation \in Nat \ {0} /\ next.rules \in SUBSET CacheRule
        /\ next.version + 1 \in Nat /\ next.epoch \in Epochs
    BY <1>3, SiteTyped DEF Bounded
  <2>2. site' = SiteAs(next, next.generation, next.rules, next.version + 1, next.epoch)
    BY <1>1, <2>1 DEF SiteAs, Sites
  <2> QED
    BY <2>1, <2>2, SiteWith
<1>5. Bounded(site')
  <2>1. next.version \in Nat /\ \A r \in next.rules : r.generation \in Nat
    BY <1>3, SiteTyped DEF Bounded, CacheRule
  <2> QED
    BY <1>3, <1>4, <2>1 DEF Bounded, ViewSound, HasLastRule
<1>6. Advance(site, site')
  <2>1. \A u \in Urls : KeyOf(site', u) = KeyOf(next, u)
    BY <1>4, SameKey
  <2> QED
    BY <1>3, <1>4, <2>1 DEF Advance
<1> DEFINE op == NewOperation(ops[o].scope, ops[o].paths)
<1>7. /\ op \in Operations /\ op.paths = ops[o].paths /\ op.epoch = (site').epoch
      /\ op.task = "none" /\ ~op.attached
      /\ \A n \in Edges : /\ op.rows[n].conf = "not_targeted" /\ op.rows[n].run = 0
                          /\ op.rows[n].warm # "succeeded"
                          /\ op.rows[n].warm = "not_requested" => ops[o].paths = {}
  <2>1. CacheShapes /\ ops[o] \in Operations
    BY OpsDomain DEF CacheInv
  <2>2. ops[o].scope \in Scopes /\ ops[o].paths \in SUBSET Urls /\ (site').epoch \in Epochs
    BY <1>4, <2>1, SiteTyped DEF Operations
  <2> QED
    BY <2>1, <2>2, NewOperationTyped
<1>8. ops' = Append(ops, op)
  BY <1>1
<1> HIDE DEF op
<1>9. \A i \in DOMAIN (site').jobs : (site').jobs[i] = Len(ops) + 1
              \/ \E k \in DOMAIN site.jobs : (site').jobs[i] = site.jobs[k]
  BY <1>3, <1>4
<1>10. underway' = Len(ops) + 1 /\ retired' = retired
       /\ UNCHANGED <<publication, staged, lastTask, heard, running, disk, round, beat, cached,
                      lastRun, used>>
  BY DEF RetryPrewarm
<1> QED
  BY <1>2, <1>5, <1>6, <1>7, <1>8, <1>9, <1>10, OperationAdded

-------------------------------------------------------------------------------
(* The site is edited and published *)

LEMMA EditSiteKeeps == ASSUME CacheInv, EditSite PROVE CacheInv'
<1> USE DEF CacheInv
<1>1. PICK change \in {"caching", "enabled"} : site' = Edited(site, change)
  BY DEF EditSite
<1> DEFINE g == IF change = "caching" THEN site.generation + 1 ELSE site.generation
           caching == IF change = "caching" THEN ~site.caching ELSE site.caching
           enabled == IF change = "enabled" THEN ~site.enabled ELSE site.enabled
           S == Seq(OperationIds)
           C == SUBSET CacheRule
<1>2. Bounded(site) /\ site \in Sites
  BY SitesBounded
<1>3. /\ site.generation \in Nat \ {0} /\ site.version \in Nat
      /\ \A r \in site.rules : r.generation \in Nat
      /\ \A u \in Urls : site.epoch[u] \in Nat
  BY <1>2, SiteTyped DEF CacheRule, Epochs
<1>4. /\ site' \in Sites /\ (site').generation = g /\ (site').rules = site.rules
      /\ (site').version = site.version + 1 /\ (site').epoch = site.epoch
      /\ (site').jobs = site.jobs
  <2>1. Sites = [generation : Nat \ {0}, rules : C, jobs : S, version : Nat,
               caching : BOOLEAN, enabled : BOOLEAN, epoch : Epochs]
    BY DEF Sites
  <2>2. g \in Nat \ {0}
    BY <1>3
  <2>3. site.caching \in BOOLEAN /\ site.enabled \in BOOLEAN
    BY <1>2, SiteTyped
  <2>4. caching \in BOOLEAN
    <3>1. (~site.caching) \in BOOLEAN
      BY <2>3
    <3> QED
      BY <2>3, <3>1
  <2>5. enabled \in BOOLEAN
    <3>1. (~site.enabled) \in BOOLEAN
      BY <2>3
    <3> QED
      BY <2>3, <3>1
  <2>6. site' = [site EXCEPT !.caching = caching, !.generation = g, !.enabled = enabled,
                             !.version = site.version + 1]
    BY <1>1 DEF Edited
  <2>7. site.version + 1 \in Nat
    BY <1>3
  <2> HIDE DEF S, C, g, caching, enabled
  <2>8. site' \in Sites
    BY <1>2, <2>1, <2>2, <2>4, <2>5, <2>6, <2>7
  <2>9. /\ (site').generation = g /\ (site').rules = site.rules
        /\ (site').version = site.version + 1 /\ (site').epoch = site.epoch
        /\ (site').jobs = site.jobs
    BY <1>2, <2>1, <2>6
  <2> QED
    BY <2>8, <2>9
<1>5. Bounded(site')
  BY <1>2, <1>3, <1>4 DEF Bounded, ViewSound, HasLastRule
<1>6. Advance(site, site')
  <2>1. CASE change = "caching"
    <3>1. (site').generation > site.generation
      BY <1>3, <1>4, <2>1
    <3>2. \A u \in Urls : KeyBefore(KeyOf(site, u), KeyOf(site', u))
      BY <1>2, <1>5, <3>1, NextGeneration DEF Bounded
    <3> QED
      BY <1>3, <1>4, <3>2 DEF Advance
  <2>2. CASE change = "enabled"
    <3>1. \A u \in Urls : KeyOf(site', u) = KeyOf(site, u)
      BY <1>4, <2>2, SameKey
    <3> QED
      BY <1>3, <1>4, <3>1 DEF Advance
  <2> QED
    BY <2>1, <2>2
<1>7. /\ UNCHANGED <<publication, staged, ops, underway, lastTask, heard, running, disk, round,
                     beat, cached, retired, lastRun>>
      /\ used' = [used EXCEPT !.edits = @ + 1]
  BY DEF EditSite, Count
<1>8. /\ used' \in [edits : Nat, runs : 0..MaxRuns, faults : Nat] /\ used'.runs = used.runs
      /\ used.runs \in Nat
  <2>1. used \in [edits : Nat, runs : 0..MaxRuns, faults : Nat]
    BY DEF CacheShapes
  <2> QED
    BY <1>7, <2>1, CacheConstants
<1>9. CacheShapes'
  BY <1>4, <1>7, <1>8 DEF CacheShapes
<1>10. SiteSound'
  BY <1>5, <1>7 DEF SiteSound, Bounded
<1>11. KeysGoUp' /\ KeysAgree'
  BY <1>5, <1>6, <1>7, SiteMoves DEF Bounded
<1>12. JobsFollow'
  <2>1. \A e, jobs : JobsWithin(e, jobs) => JobsWithin(e, jobs)'
    BY <1>7 DEF JobsWithin
  <2> QED
    BY <1>4, <1>7, <2>1 DEF JobsFollow
<1>13. VersionsRise' /\ RowsSound'
  BY <1>7 DEF VersionsRise, RowsSound
<1>14. WarmSound'
  BY <1>7 DEF WarmSound, Warmed, AllResults
<1>15. RunsKept'
  BY <1>7, <1>8 DEF RunsKept, RunsOrdered, LastRunsKept, Kept
<1> QED
  BY <1>9, <1>10, <1>11, <1>12, <1>13, <1>14, <1>15

\* What is staged for an edge stays, or is the site as it is given.
LEMMA RestagedFacts ==
  ASSUME CacheShapes, NEW s \in Sites
  PROVE  /\ Restaged(s) \in [Edges -> [content : Content, jobs : Seq(OperationIds), version : Nat]]
         /\ \A n \in Edges :
              \/ Restaged(s)[n] = staged[n]
              \/ /\ SameView(Restaged(s)[n].content, s)
                 /\ Restaged(s)[n].jobs \in {s.jobs, <<>>}
                 /\ Restaged(s)[n].version = staged[n].version + 1
<1> DEFINE J == Seq(OperationIds)
           jobs(n) == IF s.enabled /\ heard[n].capable THEN s.jobs ELSE <<>>
           content == [generation |-> s.generation, rules |-> s.rules, epoch |-> s.epoch,
                       serving |-> s.enabled /\ s.caching]
           new(n) == [content |-> content, jobs |-> jobs(n), version |-> staged[n].version + 1]
<1>1. content \in Content
  BY SiteTyped DEF Content, Epochs
<1>2. SameView(content, s)
  BY DEF SameView
<1>3. \A n \in Edges : jobs(n) \in J /\ jobs(n) \in {s.jobs, <<>>}
  BY SiteTyped, EmptySeq
<1>4. Restaged(s) = [n \in Edges |-> IF staged[n].content = content /\ staged[n].jobs = jobs(n)
                                     THEN staged[n] ELSE new(n)]
  BY DEF Restaged
<1>5. \A n \in Edges : staged[n] \in [content : Content, jobs : J, version : Nat]
                       /\ staged[n].version \in Nat
  BY EdgeTyped
<1> HIDE DEF content, jobs, J
<1>6. \A n \in Edges : new(n) \in [content : Content, jobs : J, version : Nat]
                       /\ new(n).content = content /\ new(n).jobs = jobs(n)
                       /\ new(n).version = staged[n].version + 1
  BY <1>1, <1>3, <1>5
<1> HIDE DEF new
<1>7. Restaged(s) \in [Edges -> [content : Content, jobs : J, version : Nat]]
  BY <1>4, <1>5, <1>6
<1>8. ASSUME NEW n \in Edges
      PROVE  Restaged(s)[n] = staged[n] \/ Restaged(s)[n] = new(n)
  BY <1>4
<1> QED
  BY <1>2, <1>3, <1>6, <1>7, <1>8 DEF J

\* The site or its publication is staged; rows change, but not what is warm.
LEMMA StagingKeeps ==
  ASSUME CacheInv, CacheShapes', NEW s \in {site, publication},
         staged' = Restaged(s), publication' \in {site, publication},
         UNCHANGED <<site, heard, running, disk, round, beat, cached, retired, lastRun, used>>,
         DOMAIN ops' = DOMAIN ops,
         \A o \in DOMAIN ops : /\ ops'[o].paths = ops[o].paths /\ ops'[o].epoch = ops[o].epoch
                               /\ \A n \in Edges : /\ ops'[o].rows[n].warm = ops[o].rows[n].warm
                                                   /\ ops'[o].rows[n].run = ops[o].rows[n].run,
         RowsSound'
  PROVE  CacheInv'
<1> USE DEF CacheInv
<1>0. OpsGrow
  BY DEF OpsGrow
<1>1. s \in Sites /\ s \in CacheViews
  BY SitesBounded DEF CacheViews
<1>2. \A n \in Edges :
        \/ staged'[n] = staged[n]
        \/ /\ SameView(staged'[n].content, s) /\ staged'[n].jobs \in {s.jobs, <<>>}
           /\ staged'[n].version = staged[n].version + 1
  BY <1>1, RestagedFacts
<1>3. SiteSound'
  BY DEF SiteSound
<1>4. KeysGoUp' /\ KeysAgree'
  <2>1. ASSUME NEW v \in CacheViews' PROVE \E t \in CacheViews : SameView(v, t)
    <3>1. \/ v \in CacheViews
          \/ \E n \in Edges : v = staged'[n].content
      BY <2>1 DEF CacheViews
    <3>2. CASE v \in CacheViews
      BY <3>2 DEF SameView
    <3>3. CASE \E n \in Edges : v = staged'[n].content
      <4>1. PICK n \in Edges : v = staged'[n].content
        BY <3>3
      <4>2. CASE staged'[n] = staged[n]
        <5>1. v \in CacheViews
          BY <4>1, <4>2 DEF CacheViews
        <5> QED
          BY <5>1 DEF SameView
      <4>3. CASE SameView(staged'[n].content, s)
        BY <1>1, <4>1, <4>3
      <4> QED
        BY <1>2, <4>2, <4>3
    <3> QED
      BY <3>1, <3>2, <3>3
  <2>2. \A n \in Edges : \A e \in cached'[n] : e \in cached[n]
    OBVIOUS
  <2> QED
    BY <2>1, <2>2, ViewsMove
<1>5. JobsFollow'
  <2>1. \A e, jobs : JobsWithin(e, jobs) => JobsWithin(e, jobs)'
    BY <1>0 DEF JobsWithin, OpsGrow
  <2>2. JobsWithin(s.epoch, s.jobs) /\ JobsWithin(s.epoch, <<>>)
    BY DEF JobsFollow, JobsWithin
  <2>3. \A n \in Edges : JobsWithin(staged'[n].content.epoch, staged'[n].jobs)
    BY <1>2, <2>2 DEF JobsFollow, SameView
  <2> QED
    BY <2>1, <2>3 DEF JobsFollow
<1>6. VersionsRise'
  <2> SUFFICES ASSUME NEW n \in Edges
               PROVE  /\ disk[n].applied <= staged'[n].version
                      /\ heard[n].version <= disk[n].applied
                      /\ round[n].at # "idle" => disk[n].applied < round[n].version
                                                 /\ round[n].version <= staged'[n].version
                      /\ beat[n].at # "none" => heard[n].version <= beat[n].version
                                                /\ beat[n].version <= disk[n].applied
    BY DEF VersionsRise
  <2>1. staged'[n].version >= staged[n].version /\ staged[n].version \in Nat
        /\ staged'[n].version \in Nat
    BY <1>2, EdgeTyped
  <2>2. disk[n].applied \in Nat /\ round[n].version \in Nat
    BY EdgeTyped, RoundTyped
  <2> QED
    BY <2>1, <2>2 DEF VersionsRise
<1>7. WarmSound'
  BY <1>0, WarmMoves DEF AllResults, WarmSound
<1>8. RunsKept'
  <2>1. used'.runs >= used.runs
    BY DEF CacheShapes
  <2> QED
    BY <1>0, <2>1, RunsStay DEF RunsKept
<1> QED
  BY <1>3, <1>4, <1>5, <1>6, <1>7, <1>8

\* Rows and tasks change, but not what is warm.
LEMMA MendingKeeps ==
  ASSUME CacheInv, ops' \in Seq(Operations), Len(ops') = Len(ops),
         underway' \in 0..Len(ops), lastTask' \in 0..Len(ops),
         UNCHANGED <<site, publication, staged, heard, running, disk, round, beat, cached, retired,
                     lastRun>>,
         used' \in [edits : Nat, runs : 0..MaxRuns, faults : Nat], used'.runs = used.runs,
         \A o \in DOMAIN ops : /\ ops'[o].paths = ops[o].paths /\ ops'[o].epoch = ops[o].epoch
                               /\ \A n \in Edges : /\ ops'[o].rows[n].warm = ops[o].rows[n].warm
                                                   /\ ops'[o].rows[n].run = ops[o].rows[n].run,
         RowsSound'
  PROVE  CacheInv'
<1> USE DEF CacheInv
<1>0. DOMAIN ops' = DOMAIN ops /\ OpsGrow
  <2>1. DOMAIN ops' = 1..Len(ops') /\ DOMAIN ops = 1..Len(ops)
    BY LenProperties, OpsDomain
  <2> QED
    BY <2>1 DEF OpsGrow
<1>1. CacheShapes'
  BY DEF CacheShapes
<1>2. SiteSound' /\ VersionsRise'
  BY DEF SiteSound, VersionsRise
<1>3. KeysGoUp' /\ KeysAgree'
  BY KeysStay
<1>4. JobsFollow'
  BY <1>0, JobsStay
<1>5. WarmSound'
  BY <1>0, WarmMoves DEF AllResults, WarmSound
<1>6. RunsKept'
  <2>1. used'.runs >= used.runs
    BY DEF CacheShapes
  <2> QED
    BY <1>0, <1>1, <2>1, RunsStay DEF RunsKept
<1> QED
  BY <1>1, <1>2, <1>3, <1>4, <1>5, <1>6

\* An operation's row of the database after an update.
OpAs(op, f, t, a, d, rows) ==
  [op EXCEPT !.failed = f, !.task = t, !.attached = a, !.overdue = d, !.rows = rows]
TaskStates == {"none", "active", "succeeded", "partial", "failed"}

LEMMA OperationTyped ==
  ASSUME NEW op \in Operations
  PROVE  /\ op.failed \in BOOLEAN /\ op.task \in TaskStates /\ op.attached \in BOOLEAN
         /\ op.overdue \in BOOLEAN /\ op.rows \in [Edges -> Row] /\ op.paths \in SUBSET Urls
         /\ op.epoch \in Epochs /\ op.scope \in Scopes
<1> DEFINE R == [Edges -> Row]
           P == SUBSET Urls
<1>1. Operations =
        [scope : Scopes, paths : P, failed : BOOLEAN, task : TaskStates, attached : BOOLEAN,
         overdue : BOOLEAN, epoch : Epochs, rows : R]
  BY DEF Operations, TaskStates
<1> HIDE DEF R, P
<1>2. op.rows \in R /\ op.paths \in P /\ op.epoch \in Epochs /\ op.scope \in Scopes
  BY <1>1
<1>3. op.failed \in BOOLEAN /\ op.task \in TaskStates /\ op.attached \in BOOLEAN
      /\ op.overdue \in BOOLEAN
  BY <1>1
<1> QED
  BY <1>2, <1>3 DEF R, P

LEMMA OperationWith ==
  ASSUME NEW op \in Operations, NEW f \in BOOLEAN, NEW t \in TaskStates, NEW a \in BOOLEAN,
         NEW d \in BOOLEAN, NEW rows \in [Edges -> Row]
  PROVE  LET new == OpAs(op, f, t, a, d, rows) IN
         /\ new \in Operations /\ new.failed = f /\ new.task = t /\ new.attached = a
         /\ new.overdue = d /\ new.rows = rows /\ new.paths = op.paths /\ new.epoch = op.epoch
<1> DEFINE R == [Edges -> Row]
           P == SUBSET Urls
           new == [op EXCEPT !.failed = f, !.task = t, !.attached = a, !.overdue = d, !.rows = rows]
<1>1. Operations =
        [scope : Scopes, paths : P, failed : BOOLEAN, task : TaskStates, attached : BOOLEAN,
         overdue : BOOLEAN, epoch : Epochs, rows : R]
  BY DEF Operations, TaskStates
<1>2. rows \in R
  OBVIOUS
<1> HIDE DEF R, P
<1>3. new \in Operations
  BY <1>1, <1>2
<1>4. new.failed = f /\ new.task = t /\ new.attached = a /\ new.overdue = d /\ new.rows = rows
  BY <1>1
<1>5. new.paths = op.paths /\ new.epoch = op.epoch
  BY <1>1
<1> QED
  BY <1>3, <1>4, <1>5 DEF OpAs

\* One operation is updated.
LEMMA OperationUpdated ==
  ASSUME CacheShapes, NEW o \in DOMAIN ops, NEW op \in Operations, ops' = [ops EXCEPT ![o] = op]
  PROVE  /\ ops' \in Seq(Operations) /\ Len(ops') = Len(ops) /\ DOMAIN ops' = DOMAIN ops
         /\ ops'[o] = op /\ \A p \in DOMAIN ops : p # o => ops'[p] = ops[p]
<1>1. ops \in Seq(Operations) /\ DOMAIN ops = 1..Len(ops) /\ Len(ops) \in Nat
  BY OpsDomain DEF CacheShapes
<1>2. /\ ops' \in Seq(Operations) /\ Len(ops') = Len(ops)
      /\ \A p \in 1..Len(ops) : ops'[p] = IF p = o THEN op ELSE ops[p]
  BY <1>1, ExceptSeq
<1>3. DOMAIN ops' = 1..Len(ops')
  BY <1>2, LenProperties
<1> QED
  BY <1>1, <1>2, <1>3

LEMMA BusyInDomain ==
  ASSUME CacheShapes
  PROVE  /\ underway # 0 => underway \in DOMAIN ops
         /\ lastTask # 0 => lastTask \in DOMAIN ops
<1>1. underway \in 0..Len(ops) /\ lastTask \in 0..Len(ops) /\ DOMAIN ops = 1..Len(ops)
      /\ Len(ops) \in Nat
  BY OpsDomain DEF CacheShapes
<1> QED
  BY <1>1

LEMMA StageOperationKeeps == ASSUME CacheInv, StageOperation PROVE CacheInv'
<1> USE DEF CacheInv
<1> DEFINE o == underway
           rows == [n \in Edges |-> [ops[o].rows[n] EXCEPT !.conf = "pending",
                                                           !.target = staged'[n].version]]
           op == OpAs(ops[o], ops[o].failed, "active", ops[o].attached, ops[o].overdue, rows)
<1>1. o \in DOMAIN ops /\ ops[o] \in Operations /\ ops[o].task = "none"
  BY BusyInDomain, OpsDomain DEF StageOperation
<1>2. staged' \in [Edges -> [content : Content, jobs : Seq(OperationIds), version : Nat]]
  BY SitesBounded, RestagedFacts DEF StageOperation
<1>3. ASSUME NEW n \in Edges
      PROVE  /\ rows[n] \in Row /\ rows[n].conf = "pending"
             /\ rows[n].warm = ops[o].rows[n].warm /\ rows[n].run = ops[o].rows[n].run
  <2>1. ops[o].rows[n] \in Row
    BY <1>1, RowTyped
  <2>2. staged'[n].version \in Nat
    BY <1>2
  <2> HIDE DEF o
  <2> QED
    BY <2>1, <2>2 DEF Row
<1>4. rows \in [Edges -> Row]
  BY <1>3
<1>5. ops' = [ops EXCEPT ![o] = op]
  BY <1>1, OperationTyped DEF StageOperation, OpAs
<1> HIDE DEF rows
<1>6. /\ op \in Operations /\ op.task = "active" /\ op.attached = ops[o].attached
      /\ op.rows = rows /\ op.paths = ops[o].paths /\ op.epoch = ops[o].epoch
  <2>1. /\ ops[o].failed \in BOOLEAN /\ ops[o].attached \in BOOLEAN /\ ops[o].overdue \in BOOLEAN
        /\ ops[o] \in Operations
    BY <1>1, OperationTyped
  <2>2. "active" \in TaskStates
    BY DEF TaskStates
  <2> HIDE DEF o
  <2> QED
    BY <1>4, <2>1, <2>2, OperationWith
<1> HIDE DEF op
<1>7. /\ ops' \in Seq(Operations) /\ Len(ops') = Len(ops) /\ DOMAIN ops' = DOMAIN ops
      /\ ops'[o] = op /\ \A p \in DOMAIN ops : p # o => ops'[p] = ops[p]
  BY <1>1, <1>5, <1>6, OperationUpdated
<1>8. CacheShapes'
  <2>1. lastTask' \in 0..Len(ops') /\ underway' \in 0..Len(ops')
    BY <1>7 DEF StageOperation, CacheShapes
  <2> QED
    BY <1>2, <1>7, <2>1 DEF StageOperation, CacheShapes
<1>9. RowsSound'
  <2>1. ASSUME NEW p \in DOMAIN ops', p # o
        PROVE  ops'[p] = ops[p]
    BY <1>7, <2>1
  <2>2. heard' = heard
    BY DEF StageOperation
  <2>3. \A n \in Edges : op.rows[n].conf # "succeeded" /\ op.rows[n].warm = ops[o].rows[n].warm
    BY <1>3, <1>6
  <2> HIDE DEF o
  <2> QED
    BY <1>1, <1>6, <1>7, <2>1, <2>2, <2>3 DEF RowsSound
<1>10. \A p \in DOMAIN ops : /\ ops'[p].paths = ops[p].paths /\ ops'[p].epoch = ops[p].epoch
                             /\ \A n \in Edges : /\ ops'[p].rows[n].warm = ops[p].rows[n].warm
                                                 /\ ops'[p].rows[n].run = ops[p].rows[n].run
  <2> HIDE DEF o
  <2> QED
    BY <1>3, <1>6, <1>7
<1>11. /\ staged' = Restaged(site) /\ publication' = site
       /\ UNCHANGED <<site, heard, running, disk, round, beat, cached, retired, lastRun, used>>
  BY DEF StageOperation
<1> QED
  BY <1>7, <1>8, <1>9, <1>10, <1>11, StagingKeeps

LEMMA PublishSiteKeeps == ASSUME CacheInv, PublishSite PROVE CacheInv'
<1> USE DEF CacheInv
<1>1. staged' \in [Edges -> [content : Content, jobs : Seq(OperationIds), version : Nat]]
  BY SitesBounded, RestagedFacts DEF PublishSite
<1>2. /\ staged' = Restaged(site) /\ publication' = site /\ lastTask' = 0
      /\ UNCHANGED <<site, ops, underway, heard, running, disk, round, beat, cached, retired,
                     lastRun, used>>
  BY DEF PublishSite
<1>3. CacheShapes'
  <2>1. lastTask' \in 0..Len(ops')
    BY <1>2, OpsDomain
  <2> QED
    BY <1>1, <1>2, <2>1 DEF CacheShapes
<1>4. RowsSound'
  BY <1>2 DEF RowsSound
<1> QED
  BY <1>2, <1>3, <1>4, StagingKeeps

LEMMA PublishAgainKeeps == ASSUME CacheInv, PublishAgain PROVE CacheInv'
<1> USE DEF CacheInv
<1>1. staged' \in [Edges -> [content : Content, jobs : Seq(OperationIds), version : Nat]]
  BY SitesBounded, RestagedFacts DEF PublishAgain
<1>2. /\ staged' = Restaged(publication) /\ publication' = publication
      /\ UNCHANGED <<site, ops, underway, lastTask, heard, running, disk, round, beat, cached,
                     retired, lastRun, used>>
  BY DEF PublishAgain
<1>3. CacheShapes'
  BY <1>1, <1>2 DEF CacheShapes
<1>4. RowsSound'
  BY <1>2 DEF RowsSound
<1> QED
  BY <1>2, <1>3, <1>4, StagingKeeps

\* One operation's task and rows change; nothing is made warm.
LEMMA OneMended ==
  ASSUME CacheInv, NEW o \in DOMAIN ops, NEW op \in Operations, ops' = [ops EXCEPT ![o] = op],
         op.paths = ops[o].paths, op.epoch = ops[o].epoch,
         \A n \in Edges : /\ op.rows[n].warm = ops[o].rows[n].warm
                          /\ op.rows[n].run = ops[o].rows[n].run,
         underway' \in 0..Len(ops), lastTask' \in 0..Len(ops),
         UNCHANGED <<site, publication, staged, heard, running, disk, round, beat, cached, retired,
                     lastRun>>,
         used' \in [edits : Nat, runs : 0..MaxRuns, faults : Nat], used'.runs = used.runs,
         op.attached => op.task # "none",
         op.task = "succeeded" => \A n \in Edges : op.rows[n].conf = "succeeded",
         \A n \in Edges : op.rows[n].conf = "succeeded" => heard[n].version >= op.rows[n].target
  PROVE  CacheInv'
<1>1. CacheShapes
  BY DEF CacheInv
<1>2. /\ ops' \in Seq(Operations) /\ Len(ops') = Len(ops) /\ DOMAIN ops' = DOMAIN ops
      /\ ops'[o] = op /\ \A p \in DOMAIN ops : p # o => ops'[p] = ops[p]
  BY <1>1, OperationUpdated
<1>3. RowsSound'
  <2>1. ASSUME NEW p \in DOMAIN ops', p # o
        PROVE  ops'[p] = ops[p]
    BY <1>2, <2>1
  <2> QED
    BY <1>2, <2>1 DEF RowsSound, CacheInv
<1>4. \A p \in DOMAIN ops : /\ ops'[p].paths = ops[p].paths /\ ops'[p].epoch = ops[p].epoch
                            /\ \A n \in Edges : /\ ops'[p].rows[n].warm = ops[p].rows[n].warm
                                                /\ ops'[p].rows[n].run = ops[p].rows[n].run
  BY <1>2
<1> QED
  BY <1>2, <1>3, <1>4, MendingKeeps

LEMMA RowsTyped ==
  ASSUME CacheInv, NEW o \in DOMAIN ops
  PROVE  /\ ops[o] \in Operations /\ ops[o].failed \in BOOLEAN /\ ops[o].task \in TaskStates
         /\ ops[o].attached \in BOOLEAN /\ ops[o].overdue \in BOOLEAN
         /\ ops[o].rows \in [Edges -> Row]
         /\ used \in [edits : Nat, runs : 0..MaxRuns, faults : Nat]
         /\ underway \in 0..Len(ops) /\ lastTask \in 0..Len(ops) /\ 0 \in 0..Len(ops)
         /\ Len(ops) \in Nat /\ o \in 0..Len(ops)
<1>1. CacheShapes
  BY DEF CacheInv
<1>2. ops[o] \in Operations /\ DOMAIN ops = 1..Len(ops) /\ Len(ops) \in Nat
  BY <1>1, OpsDomain
<1> QED
  BY <1>1, <1>2, OperationTyped DEF CacheShapes

LEMMA FaultCounted ==
  ASSUME CacheShapes, Fault
  PROVE  used' \in [edits : Nat, runs : 0..MaxRuns, faults : Nat] /\ used'.runs = used.runs
<1>1. used \in [edits : Nat, runs : 0..MaxRuns, faults : Nat]
  BY DEF CacheShapes
<1>2. used' = [used EXCEPT !.faults = @ + 1]
  BY DEF Fault, Count
<1> QED
  BY <1>1, <1>2

LEMMA FailOperationKeeps == ASSUME CacheInv, FailOperation PROVE CacheInv'
<1> DEFINE o == underway
<1>1. PICK made \in BOOLEAN :
        /\ ops' = [ops EXCEPT ![o].failed = TRUE, ![o].attached = made,
                              ![o].task = IF made THEN "failed" ELSE "none"]
        /\ lastTask' = IF made THEN o ELSE lastTask
  BY DEF FailOperation
<1>2. CacheShapes /\ o \in DOMAIN ops
  BY BusyInDomain DEF FailOperation, CacheInv
<1> DEFINE t == IF made THEN "failed" ELSE "none"
<1>3. ops' = [ops EXCEPT ![o] = OpAs(ops[o], TRUE, t, made, ops[o].overdue, ops[o].rows)]
  BY <1>1, <1>2, RowsTyped DEF OpAs, Operations
<1>4. t \in TaskStates /\ (made => t # "none") /\ t # "succeeded"
  BY DEF TaskStates
<1>5. /\ underway' = 0 /\ Fault
      /\ UNCHANGED <<site, publication, staged, heard, running, disk, round, beat, cached, retired,
                     lastRun>>
  BY DEF FailOperation
<1>6. \A n \in Edges : ops[o].rows[n].conf = "succeeded" => heard[n].version >= ops[o].rows[n].target
  BY <1>2 DEF CacheInv, RowsSound
<1>7. underway' \in 0..Len(ops) /\ lastTask' \in 0..Len(ops)
  BY <1>1, <1>2, <1>5, RowsTyped
<1> HIDE DEF o, t
<1>8. used' \in [edits : Nat, runs : 0..MaxRuns, faults : Nat] /\ used'.runs = used.runs
  BY <1>2, <1>5, FaultCounted
<1>9. ops[o].overdue \in BOOLEAN /\ ops[o].rows \in [Edges -> Row]
  BY <1>2, RowsTyped
<1> DEFINE f == TRUE
           out == t
           a == made
           d == ops[o].overdue
           op == OpAs(ops[o], f, out, a, d, ops[o].rows)
<1>10. ops' = [ops EXCEPT ![o] = op]
  BY <1>3
<1>11. /\ ops[o] \in Operations /\ f \in BOOLEAN /\ out \in TaskStates /\ a \in BOOLEAN
       /\ d \in BOOLEAN /\ ops[o].rows \in [Edges -> Row]
  BY <1>2, <1>4, <1>9, RowsTyped
<1>12. /\ a => out # "none"
       /\ out = "succeeded" => \A n \in Edges : ops[o].rows[n].conf = "succeeded"
       /\ \A n \in Edges : ops[o].rows[n].conf = "succeeded" => heard[n].version >= ops[o].rows[n].target
       /\ \A n \in Edges : /\ ops[o].rows[n].warm = ops[o].rows[n].warm
                            /\ ops[o].rows[n].run = ops[o].rows[n].run
  BY <1>4, <1>6
<1> HIDE DEF f, out, a, d, o
<1>13. /\ op \in Operations /\ op.attached = a /\ op.task = out /\ op.rows = ops[o].rows
       /\ op.paths = ops[o].paths /\ op.epoch = ops[o].epoch
  BY <1>11, OperationWith
<1> HIDE DEF op
<1>14. /\ op.attached => op.task # "none"
       /\ op.task = "succeeded" => \A n \in Edges : op.rows[n].conf = "succeeded"
       /\ \A n \in Edges : op.rows[n].conf = "succeeded" => heard[n].version >= op.rows[n].target
       /\ \A n \in Edges : /\ op.rows[n].warm = ops[o].rows[n].warm
                            /\ op.rows[n].run = ops[o].rows[n].run
  BY <1>12, <1>13
<1> QED
  BY <1>2, <1>5, <1>7, <1>8, <1>10, <1>13, <1>14, OneMended

LEMMA AttachTaskKeeps == ASSUME CacheInv, AttachTask PROVE CacheInv'
<1> DEFINE o == underway
<1>1. o \in DOMAIN ops /\ ops[o].task # "none"
  BY BusyInDomain DEF AttachTask, CacheInv
<1>2. ops' = [ops EXCEPT ![o] = OpAs(ops[o], ops[o].failed, ops[o].task, TRUE, ops[o].overdue,
                                     ops[o].rows)]
  BY <1>1, RowsTyped DEF OpAs, Operations, AttachTask
<1>3. /\ underway' = 0
      /\ UNCHANGED <<site, publication, staged, lastTask, heard, running, disk, round, beat, cached,
                     retired, lastRun, used>>
  BY DEF AttachTask
<1>4. /\ ops[o].task = "succeeded" => \A n \in Edges : ops[o].rows[n].conf = "succeeded"
      /\ \A n \in Edges : ops[o].rows[n].conf = "succeeded" =>
                            heard[n].version >= ops[o].rows[n].target
  BY <1>1 DEF CacheInv, RowsSound
<1> HIDE DEF o
<1>5. /\ ops[o].failed \in BOOLEAN /\ ops[o].task \in TaskStates /\ ops[o].overdue \in BOOLEAN
      /\ ops[o].rows \in [Edges -> Row]
      /\ used' \in [edits : Nat, runs : 0..MaxRuns, faults : Nat] /\ used'.runs = used.runs
      /\ underway' \in 0..Len(ops) /\ lastTask' \in 0..Len(ops)
  BY <1>1, <1>3, RowsTyped
<1> DEFINE f == ops[o].failed
           out == ops[o].task
           a == TRUE
           d == ops[o].overdue
           op == OpAs(ops[o], f, out, a, d, ops[o].rows)
<1>10. ops' = [ops EXCEPT ![o] = op]
  BY <1>2
<1>11. /\ ops[o] \in Operations /\ f \in BOOLEAN /\ out \in TaskStates /\ a \in BOOLEAN
       /\ d \in BOOLEAN /\ ops[o].rows \in [Edges -> Row]
  BY <1>1, <1>5, RowsTyped
<1>12. /\ a => out # "none"
       /\ out = "succeeded" => \A n \in Edges : ops[o].rows[n].conf = "succeeded"
       /\ \A n \in Edges : ops[o].rows[n].conf = "succeeded" => heard[n].version >= ops[o].rows[n].target
       /\ \A n \in Edges : /\ ops[o].rows[n].warm = ops[o].rows[n].warm
                            /\ ops[o].rows[n].run = ops[o].rows[n].run
  BY <1>1, <1>4
<1> HIDE DEF f, out, a, d, o
<1>13. /\ op \in Operations /\ op.attached = a /\ op.task = out /\ op.rows = ops[o].rows
       /\ op.paths = ops[o].paths /\ op.epoch = ops[o].epoch
  BY <1>11, OperationWith
<1> HIDE DEF op
<1>14. /\ op.attached => op.task # "none"
       /\ op.task = "succeeded" => \A n \in Edges : op.rows[n].conf = "succeeded"
       /\ \A n \in Edges : op.rows[n].conf = "succeeded" => heard[n].version >= op.rows[n].target
       /\ \A n \in Edges : /\ op.rows[n].warm = ops[o].rows[n].warm
                            /\ op.rows[n].run = ops[o].rows[n].run
  BY <1>12, <1>13
<1> QED
  BY <1>1, <1>3, <1>5, <1>10, <1>13, <1>14, OneMended

LEMMA ForgetOperationKeeps == ASSUME CacheInv, ForgetOperation PROVE CacheInv'
<1>1. /\ underway' = 0 /\ Fault
      /\ UNCHANGED <<site, publication, staged, ops, lastTask, heard, running, disk, round, beat,
                     cached, retired, lastRun>>
  BY DEF ForgetOperation
<1>2. CacheShapes
  BY DEF CacheInv
<1>3. underway' \in 0..Len(ops) /\ lastTask' \in 0..Len(ops) /\ ops' \in Seq(Operations)
  BY <1>1, <1>2, OpsDomain DEF CacheShapes
<1>4. RowsSound'
  BY <1>1 DEF RowsSound, CacheInv
<1> QED
  BY <1>1, <1>2, <1>3, <1>4, FaultCounted, MendingKeeps

LEMMA GrowOverdueKeeps == ASSUME CacheInv, GrowOverdue PROVE CacheInv'
<1>1. PICK o \in DOMAIN ops : ops' = [ops EXCEPT ![o].overdue = TRUE]
  BY DEF GrowOverdue
<1>2. ops' = [ops EXCEPT ![o] = OpAs(ops[o], ops[o].failed, ops[o].task, ops[o].attached, TRUE,
                                     ops[o].rows)]
  BY <1>1, RowsTyped DEF OpAs, Operations
<1>3. UNCHANGED <<site, publication, staged, underway, lastTask, heard, running, disk, round, beat,
                  cached, retired, lastRun, used>>
  BY DEF GrowOverdue
<1>4. /\ ops[o].attached => ops[o].task # "none"
      /\ ops[o].task = "succeeded" => \A n \in Edges : ops[o].rows[n].conf = "succeeded"
      /\ \A n \in Edges : ops[o].rows[n].conf = "succeeded" =>
                            heard[n].version >= ops[o].rows[n].target
  BY DEF CacheInv, RowsSound
<1>5. /\ ops[o].failed \in BOOLEAN /\ ops[o].task \in TaskStates /\ ops[o].attached \in BOOLEAN
      /\ ops[o].rows \in [Edges -> Row]
      /\ used' \in [edits : Nat, runs : 0..MaxRuns, faults : Nat] /\ used'.runs = used.runs
      /\ underway' \in 0..Len(ops) /\ lastTask' \in 0..Len(ops)
  BY <1>3, RowsTyped
<1> DEFINE f == ops[o].failed
           out == ops[o].task
           a == ops[o].attached
           d == TRUE
           op == OpAs(ops[o], f, out, a, d, ops[o].rows)
<1>10. ops' = [ops EXCEPT ![o] = op]
  BY <1>2
<1>11. /\ ops[o] \in Operations /\ f \in BOOLEAN /\ out \in TaskStates /\ a \in BOOLEAN
       /\ d \in BOOLEAN /\ ops[o].rows \in [Edges -> Row]
  BY <1>1, <1>5, RowsTyped
<1>12. /\ a => out # "none"
       /\ out = "succeeded" => \A n \in Edges : ops[o].rows[n].conf = "succeeded"
       /\ \A n \in Edges : ops[o].rows[n].conf = "succeeded" => heard[n].version >= ops[o].rows[n].target
       /\ \A n \in Edges : /\ ops[o].rows[n].warm = ops[o].rows[n].warm
                            /\ ops[o].rows[n].run = ops[o].rows[n].run
  BY <1>4
<1> HIDE DEF f, out, a, d
<1>13. /\ op \in Operations /\ op.attached = a /\ op.task = out /\ op.rows = ops[o].rows
       /\ op.paths = ops[o].paths /\ op.epoch = ops[o].epoch
  BY <1>11, OperationWith
<1> HIDE DEF op
<1>14. /\ op.attached => op.task # "none"
       /\ op.task = "succeeded" => \A n \in Edges : op.rows[n].conf = "succeeded"
       /\ \A n \in Edges : op.rows[n].conf = "succeeded" => heard[n].version >= op.rows[n].target
       /\ \A n \in Edges : /\ op.rows[n].warm = ops[o].rows[n].warm
                            /\ op.rows[n].run = ops[o].rows[n].run
  BY <1>12, <1>13
<1> QED
  BY <1>1, <1>3, <1>5, <1>10, <1>13, <1>14, OneMended

LEMMA OutcomeOfTask ==
  ASSUME NEW rows \in [Edges -> Row]
  PROVE  /\ TaskOutcome(rows) \in TaskStates /\ TaskOutcome(rows) # "none"
         /\ TaskOutcome(rows) = "succeeded" => \A n \in Edges : rows[n].conf = "succeeded"
BY DEF TaskOutcome, TaskStates, Confirmed

LEMMA CloseTaskKeeps == ASSUME CacheInv, CloseTask PROVE CacheInv'
<1> DEFINE o == lastTask
           rows == [n \in Edges |-> IF n \in Pending(o)
                                    THEN [ops[o].rows[n] EXCEPT !.conf = "timed_out"]
                                    ELSE ops[o].rows[n]]
<1>1. o \in DOMAIN ops
  BY BusyInDomain DEF CloseTask, Busy, CacheInv
<1>2. ASSUME NEW n \in Edges
      PROVE  /\ rows[n] \in Row /\ rows[n].warm = ops[o].rows[n].warm
             /\ rows[n].run = ops[o].rows[n].run /\ rows[n].target = ops[o].rows[n].target
             /\ rows[n].conf = "succeeded" => ops[o].rows[n].conf = "succeeded"
  <2>1. ops[o].rows[n] \in Row
    BY <1>1, RowTyped DEF CacheInv
  <2> HIDE DEF o
  <2> QED
    BY <2>1 DEF Row
<1>3. rows \in [Edges -> Row]
  BY <1>2
<1>4. ops' = [ops EXCEPT ![o].rows = rows, ![o].task = TaskOutcome(rows)]
  BY DEF CloseTask
<1> HIDE DEF rows
<1>5. ops' = [ops EXCEPT ![o] = OpAs(ops[o], ops[o].failed, TaskOutcome(rows), ops[o].attached,
                                     ops[o].overdue, rows)]
  BY <1>1, <1>4, RowsTyped DEF OpAs, Operations
<1>6. UNCHANGED <<site, publication, staged, underway, lastTask, heard, running, disk, round, beat,
                  cached, retired, lastRun, used>>
  BY DEF CloseTask
<1>7. \A n \in Edges : rows[n].conf = "succeeded" => heard[n].version >= rows[n].target
  BY <1>1, <1>2 DEF CacheInv, RowsSound
<1> HIDE DEF o
<1>8. /\ ops[o].failed \in BOOLEAN /\ ops[o].attached \in BOOLEAN /\ ops[o].overdue \in BOOLEAN
      /\ used' \in [edits : Nat, runs : 0..MaxRuns, faults : Nat] /\ used'.runs = used.runs
      /\ underway' \in 0..Len(ops) /\ lastTask' \in 0..Len(ops)
  BY <1>1, <1>6, RowsTyped
<1> DEFINE f == ops[o].failed
           out == TaskOutcome(rows)
           a == ops[o].attached
           d == ops[o].overdue
           op == OpAs(ops[o], f, out, a, d, rows)
<1>10. ops' = [ops EXCEPT ![o] = op]
  BY <1>5
<1>11. /\ ops[o] \in Operations /\ f \in BOOLEAN /\ out \in TaskStates /\ a \in BOOLEAN
       /\ d \in BOOLEAN /\ rows \in [Edges -> Row]
  BY <1>1, <1>3, <1>8, OutcomeOfTask, RowsTyped
<1>12. /\ a => out # "none"
       /\ out = "succeeded" => \A n \in Edges : rows[n].conf = "succeeded"
       /\ \A n \in Edges : rows[n].conf = "succeeded" => heard[n].version >= rows[n].target
       /\ \A n \in Edges : /\ rows[n].warm = ops[o].rows[n].warm
                            /\ rows[n].run = ops[o].rows[n].run
  BY <1>2, <1>3, <1>7, OutcomeOfTask
<1> HIDE DEF f, out, a, d, o
<1>13. /\ op \in Operations /\ op.attached = a /\ op.task = out /\ op.rows = rows
       /\ op.paths = ops[o].paths /\ op.epoch = ops[o].epoch
  BY <1>11, OperationWith
<1> HIDE DEF op
<1>14. /\ op.attached => op.task # "none"
       /\ op.task = "succeeded" => \A n \in Edges : op.rows[n].conf = "succeeded"
       /\ \A n \in Edges : op.rows[n].conf = "succeeded" => heard[n].version >= op.rows[n].target
       /\ \A n \in Edges : /\ op.rows[n].warm = ops[o].rows[n].warm
                            /\ op.rows[n].run = ops[o].rows[n].run
  BY <1>12, <1>13
<1> QED
  BY <1>1, <1>6, <1>8, <1>10, <1>13, <1>14, OneMended

LEMMA ConfirmLateEdgesKeeps == ASSUME CacheInv, ConfirmLateEdges PROVE CacheInv'
<1> DEFINE o == lastTask
           late == {n \in Edges : /\ ops[o].rows[n].conf \in {"failed", "timed_out"}
                                  /\ heard[n].version >= ops[o].rows[n].target}
           rows == [n \in Edges |-> IF n \in late
                                    THEN [ops[o].rows[n] EXCEPT !.conf = "succeeded"]
                                    ELSE ops[o].rows[n]]
<1>1. o \in DOMAIN ops
  BY BusyInDomain DEF ConfirmLateEdges, CacheInv
<1>2. ASSUME NEW n \in Edges
      PROVE  /\ rows[n] \in Row /\ rows[n].warm = ops[o].rows[n].warm
             /\ rows[n].run = ops[o].rows[n].run /\ rows[n].target = ops[o].rows[n].target
             /\ rows[n].conf = "succeeded" => ops[o].rows[n].conf = "succeeded" \/ n \in late
  <2>1. ops[o].rows[n] \in Row
    BY <1>1, RowTyped DEF CacheInv
  <2> HIDE DEF o, late
  <2> QED
    BY <2>1 DEF Row
<1>3. rows \in [Edges -> Row]
  BY <1>2
<1>4. ops' = [ops EXCEPT ![o].rows = rows, ![o].overdue = FALSE, ![o].task = TaskOutcome(rows)]
  BY DEF ConfirmLateEdges
<1> HIDE DEF rows
<1>5. ops' = [ops EXCEPT ![o] = OpAs(ops[o], ops[o].failed, TaskOutcome(rows), ops[o].attached,
                                     FALSE, rows)]
  BY <1>1, <1>4, RowsTyped DEF OpAs, Operations
<1>6. UNCHANGED <<site, publication, staged, underway, lastTask, heard, running, disk, round, beat,
                  cached, retired, lastRun, used>>
  BY DEF ConfirmLateEdges
<1>7. \A n \in Edges : rows[n].conf = "succeeded" => heard[n].version >= rows[n].target
  BY <1>1, <1>2 DEF CacheInv, RowsSound
<1> HIDE DEF o
<1>8. /\ ops[o].failed \in BOOLEAN /\ ops[o].attached \in BOOLEAN
      /\ used' \in [edits : Nat, runs : 0..MaxRuns, faults : Nat] /\ used'.runs = used.runs
      /\ underway' \in 0..Len(ops) /\ lastTask' \in 0..Len(ops)
  BY <1>1, <1>6, RowsTyped
<1> DEFINE f == ops[o].failed
           out == TaskOutcome(rows)
           a == ops[o].attached
           d == FALSE
           op == OpAs(ops[o], f, out, a, d, rows)
<1>10. ops' = [ops EXCEPT ![o] = op]
  BY <1>5
<1>11. /\ ops[o] \in Operations /\ f \in BOOLEAN /\ out \in TaskStates /\ a \in BOOLEAN
       /\ d \in BOOLEAN /\ rows \in [Edges -> Row]
  BY <1>1, <1>3, <1>8, OutcomeOfTask, RowsTyped
<1>12. /\ a => out # "none"
       /\ out = "succeeded" => \A n \in Edges : rows[n].conf = "succeeded"
       /\ \A n \in Edges : rows[n].conf = "succeeded" => heard[n].version >= rows[n].target
       /\ \A n \in Edges : /\ rows[n].warm = ops[o].rows[n].warm
                            /\ rows[n].run = ops[o].rows[n].run
  BY <1>2, <1>3, <1>7, OutcomeOfTask
<1> HIDE DEF f, out, a, d, o, late
<1>13. /\ op \in Operations /\ op.attached = a /\ op.task = out /\ op.rows = rows
       /\ op.paths = ops[o].paths /\ op.epoch = ops[o].epoch
  BY <1>11, OperationWith
<1> HIDE DEF op
<1>14. /\ op.attached => op.task # "none"
       /\ op.task = "succeeded" => \A n \in Edges : op.rows[n].conf = "succeeded"
       /\ \A n \in Edges : op.rows[n].conf = "succeeded" => heard[n].version >= op.rows[n].target
       /\ \A n \in Edges : /\ op.rows[n].warm = ops[o].rows[n].warm
                            /\ op.rows[n].run = ops[o].rows[n].run
  BY <1>12, <1>13
<1> QED
  BY <1>1, <1>6, <1>8, <1>10, <1>13, <1>14, OneMended

-------------------------------------------------------------------------------
(* The edge *)

RoundAs(r, at, done, results, failed) ==
  [r EXCEPT !.at = at, !.done = done, !.results = results, !.failed = failed]

LEMMA RoundWith ==
  ASSUME NEW r \in Rounds, NEW at \in {"idle", "run", "save", "persist"},
         NEW done \in SUBSET OperationIds, NEW results \in SUBSET Results, NEW failed \in Nat
  PROVE  LET new == RoundAs(r, at, done, results, failed) IN
         /\ new \in Rounds /\ new.at = at /\ new.done = done /\ new.results = results
         /\ new.failed = failed /\ new.list = r.list /\ new.version = r.version
         /\ new.before = r.before
<1> DEFINE S == Seq(OperationIds)
           B == SUBSET Content
           R == SUBSET Results
           D == SUBSET OperationIds
           new == RoundAs(r, at, done, results, failed)
<1>1. Rounds = [at : {"idle", "run", "save", "persist"}, list : S, version : Nat,
                before : B, done : D, results : R, failed : Nat]
  BY DEF Rounds
<1>2. results \in R /\ done \in D
  OBVIOUS
<1> HIDE DEF S, B, R, D
<1>3. new \in Rounds
  BY <1>1, <1>2 DEF RoundAs
<1>4. new.at = at /\ new.done = done /\ new.results = results /\ new.failed = failed
  BY <1>1 DEF RoundAs
<1>5. new.list = r.list /\ new.version = r.version /\ new.before = r.before
  BY <1>1 DEF RoundAs
<1> QED
  BY <1>3, <1>4, <1>5

LEMMA IdleTyped ==
  /\ Idle \in Rounds /\ Idle.at = "idle" /\ Idle.list = <<>> /\ Idle.before = {} /\ Idle.done = {}
  /\ Idle.results = {} /\ Idle.failed = 0 /\ Idle.version = 0
<1>1. /\ Idle.at = "idle" /\ Idle.list = <<>> /\ Idle.before = {} /\ Idle.done = {}
      /\ Idle.results = {} /\ Idle.failed = 0 /\ Idle.version = 0
  BY DEF Idle
<1> DEFINE S == Seq(OperationIds)
           B == SUBSET Content
           R == SUBSET Results
           D == SUBSET OperationIds
<1>2. Rounds = [at : {"idle", "run", "save", "persist"}, list : S, version : Nat,
                before : B, done : D, results : R, failed : Nat]
  BY DEF Rounds
<1>3. <<>> \in S /\ {} \in B /\ {} \in R /\ {} \in D
  BY EmptySeq
<1> HIDE DEF S, B, R, D
<1>4. Idle \in Rounds
  BY <1>2, <1>3 DEF Idle
<1> QED
  BY <1>1, <1>4

NewRound(at, list, version, before, done) ==
  [Idle EXCEPT !.at = at, !.list = list, !.version = version, !.before = before, !.done = done]

LEMMA RoundMade ==
  ASSUME NEW at \in {"idle", "run", "save", "persist"}, NEW list \in Seq(OperationIds),
         NEW version \in Nat, NEW before \in SUBSET Content, NEW done \in SUBSET OperationIds
  PROVE  LET new == NewRound(at, list, version, before, done) IN
         /\ new \in Rounds /\ new.at = at /\ new.done = done
         /\ new.list = list /\ new.version = version /\ new.before = before
<1> DEFINE S == Seq(OperationIds)
           B == SUBSET Content
           R == SUBSET Results
           D == SUBSET OperationIds
           new == NewRound(at, list, version, before, done)
<1>1. Rounds = [at : {"idle", "run", "save", "persist"}, list : S, version : Nat,
                before : B, done : D, results : R, failed : Nat]
  BY DEF Rounds
<1>2. done \in D /\ list \in S /\ before \in B
  OBVIOUS
<1>3. Idle \in Rounds
  BY IdleTyped
<1> HIDE DEF S, B, R, D
<1>4. new \in Rounds
  BY <1>1, <1>2, <1>3 DEF NewRound
<1>5. new.at = at /\ new.done = done /\ new.list = list /\ new.version = version
      /\ new.before = before
  BY <1>1, <1>3 DEF NewRound
<1> QED
  BY <1>4, <1>5

LEMMA NoBeatTyped ==
  NoBeat \in Beats /\ NoBeat.at = "none" /\ NoBeat.results = {} /\ NoBeat.version = 0
BY DEF NoBeat, Beats

Disks == [applied : Nat, completed : SUBSET OperationIds, pending : SUBSET Results]

DiskAs(d, a, c, p) == [d EXCEPT !.applied = a, !.completed = c, !.pending = p]

LEMMA DiskWith ==
  ASSUME NEW d \in Disks, NEW a \in Nat, NEW c \in SUBSET OperationIds, NEW p \in SUBSET Results
  PROVE  LET new == DiskAs(d, a, c, p) IN
         new \in Disks /\ new.applied = a /\ new.completed = c /\ new.pending = p
BY DEF Disks, DiskAs

LEMMA DiskTyped ==
  ASSUME NEW d \in Disks
  PROVE  d.applied \in Nat /\ d.completed \in SUBSET OperationIds /\ d.pending \in SUBSET Results
BY DEF Disks

\* What happens on one edge.
LEMMA EdgeMoves ==
  ASSUME CacheInv, CacheShapes', NEW n \in Edges,
         UNCHANGED <<site, publication, staged, ops, heard, retired>>, used'.runs >= used.runs,
         \A m \in Edges : m # n =>
           /\ round'[m] = round[m] /\ disk'[m] = disk[m] /\ beat'[m] = beat[m]
           /\ lastRun'[m] = lastRun[m] /\ running'[m] = running[m] /\ cached'[m] = cached[m],
         cached[n] \subseteq cached'[n],
         running'[n] \in CacheViews, round'[n].before \subseteq CacheViews,
         \A e \in cached'[n] : \/ e \in cached[n]
                               \/ e.key = <<0, 0>>
                               \/ \E t \in CacheViews :
                                    e.key = KeyOf(t, e.url) /\ e.epoch = t.epoch[e.url],
         round'[n].at # "idle" => JobsWithin(running'[n].epoch, round'[n].list),
         disk'[n].applied <= staged[n].version, heard[n].version <= disk'[n].applied,
         round'[n].at # "idle" => /\ disk'[n].applied < round'[n].version
                                  /\ round'[n].version <= staged[n].version,
         beat'[n].at # "none" => /\ heard[n].version <= beat'[n].version
                                 /\ beat'[n].version <= disk'[n].applied,
         \A r \in AllResults(n)' : \/ r \in AllResults(n)
                                   \/ r.job \in DOMAIN ops
                                      /\ (r.status = "succeeded" => Warmed(n, r.job)'),
         RunsOrdered(n)', LastRunsKept(n)'
  PROVE  CacheInv'
<1> USE DEF CacheInv
<1>0. OpsGrow
  BY DEF OpsGrow
<1>1. SiteSound' /\ RowsSound'
  BY DEF SiteSound, RowsSound
<1>2. KeysGoUp' /\ KeysAgree'
  <2>1. ASSUME NEW v \in CacheViews' PROVE v \in CacheViews
    <3>1. CASE v \in {site, publication}
      BY <3>1 DEF CacheViews
    <3>2. CASE \E m \in Edges : v = staged[m].content
      BY <3>2 DEF CacheViews
    <3>3. CASE \E m \in Edges : v = running'[m]
      <4>1. PICK m \in Edges : v = running'[m]
        BY <3>3
      <4>2. CASE m # n
        BY <4>1, <4>2 DEF CacheViews
      <4> QED
        BY <4>1, <4>2
    <3>4. CASE \E m \in Edges : v \in round'[m].before
      <4>1. PICK m \in Edges : v \in round'[m].before
        BY <3>4
      <4>2. CASE m # n
        BY <4>1, <4>2 DEF CacheViews
      <4> QED
        BY <4>1, <4>2
    <3>5. \/ v \in {site, publication} \/ \E m \in Edges : v = staged[m].content
          \/ \E m \in Edges : v = running'[m] \/ \E k \in Edges : v \in round'[k].before
      BY <2>1 DEF CacheViews
    <3> QED
      BY <3>1, <3>2, <3>3, <3>4, <3>5
  <2>2. \A v \in CacheViews' : \E t \in CacheViews : SameView(v, t)
    BY <2>1 DEF SameView
  <2>3. \A m \in Edges : \A e \in cached'[m] :
          \/ e \in cached[m]
          \/ e.key = <<0, 0>>
          \/ \E t \in CacheViews : e.key = KeyOf(t, e.url) /\ e.epoch = t.epoch[e.url]
    <3> SUFFICES ASSUME NEW m \in Edges, NEW e \in cached'[m], e \notin cached[m]
                 PROVE  \/ e.key = <<0, 0>>
                        \/ \E t \in CacheViews : e.key = KeyOf(t, e.url) /\ e.epoch = t.epoch[e.url]
      OBVIOUS
    <3>1. m = n
      OBVIOUS
    <3> QED
      BY <3>1
  <2> QED
    BY <2>2, <2>3, ViewsMove
<1>3. JobsFollow'
  <2>1. \A e, jobs : JobsWithin(e, jobs) => JobsWithin(e, jobs)'
    BY DEF JobsWithin
  <2>2. \A m \in Edges : round'[m].at # "idle" => JobsWithin(running'[m].epoch, round'[m].list)
    BY DEF JobsFollow
  <2>3. /\ JobsWithin(site.epoch, site.jobs) /\ JobsWithin(publication.epoch, publication.jobs)
        /\ \A m \in Edges : JobsWithin(staged[m].content.epoch, staged[m].jobs)
    BY DEF JobsFollow
  <2> QED
    BY <2>1, <2>2, <2>3 DEF JobsFollow
<1>4. VersionsRise'
  BY DEF VersionsRise
<1>5. WarmSound'
  <2>1. \A m \in Edges : cached[m] \subseteq cached'[m]
    OBVIOUS
  <2>2. ASSUME NEW m \in Edges, NEW r \in AllResults(m)'
        PROVE  \/ r \in AllResults(m)
               \/ r.job \in DOMAIN ops /\ (r.status = "succeeded" => Warmed(m, r.job)')
    <3>1. CASE m = n
      BY <3>1
    <3>2. CASE m # n
      BY <3>2 DEF AllResults
    <3> QED
      BY <3>1, <3>2
  <2>3. \A m \in Edges : \A o \in DOMAIN ops' : ops'[o].rows[m].warm = "succeeded" =>
           \/ o \in DOMAIN ops /\ ops[o].rows[m].warm = "succeeded"
           \/ \E r \in AllResults(m) : r.job = o /\ r.status = "succeeded"
    OBVIOUS
  <2> QED
    BY <1>0, <2>1, <2>2, <2>3, WarmMoves
<1>6. RunsKept'
  <2>1. ASSUME NEW m \in Edges, m # n PROVE RunsOrdered(m)' /\ LastRunsKept(m)'
    BY <1>0, <2>1, RunsStay DEF RunsKept
  <2> QED
    BY <2>1 DEF RunsKept
<1> QED
  BY <1>1, <1>2, <1>3, <1>4, <1>5, <1>6

\* What every proof about an edge starts from.
LEMMA EdgeFacts ==
  ASSUME CacheInv, NEW n \in Edges
  PROVE  /\ round[n] \in Rounds /\ disk[n] \in Disks /\ beat[n] \in Beats
         /\ running[n] \in CacheViews /\ staged[n].content \in CacheViews
         /\ round[n].before \subseteq CacheViews
         /\ disk[n].applied <= staged[n].version /\ heard[n].version <= disk[n].applied
         /\ round[n].at # "idle" => /\ disk[n].applied < round[n].version
                                    /\ round[n].version <= staged[n].version
                                    /\ JobsWithin(running[n].epoch, round[n].list)
         /\ beat[n].at # "none" => /\ heard[n].version <= beat[n].version
                                   /\ beat[n].version <= disk[n].applied
         /\ RunsOrdered(n) /\ LastRunsKept(n)
         /\ \A r \in AllResults(n) : r.job \in DOMAIN ops /\ (r.status = "succeeded" => Warmed(n, r.job))
         /\ used.runs \in Nat /\ used \in [edits : Nat, runs : 0..MaxRuns, faults : Nat]
<1>1. round[n] \in Rounds /\ disk[n] \in Disks /\ beat[n] \in Beats
  BY EdgeTyped DEF CacheInv, Disks
<1>2. /\ running[n] \in CacheViews /\ staged[n].content \in CacheViews
      /\ round[n].before \subseteq CacheViews
  BY DEF CacheViews
<1>3. used.runs \in Nat /\ used \in [edits : Nat, runs : 0..MaxRuns, faults : Nat]
  BY CacheConstants DEF CacheInv, CacheShapes
<1>4. RunsOrdered(n) /\ LastRunsKept(n)
  BY DEF CacheInv, RunsKept
<1>5. \A r \in AllResults(n) : r.job \in DOMAIN ops /\ (r.status = "succeeded" => Warmed(n, r.job))
  BY DEF CacheInv, WarmSound
<1>6. JobsFollow /\ VersionsRise
  BY DEF CacheInv
<1> QED
  BY <1>1, <1>2, <1>3, <1>4, <1>5, <1>6 DEF JobsFollow, VersionsRise

\* A page that is fetched: what is then kept for it is of the epoch that runs.
LEMMA PageFetched ==
  ASSUME CacheInv, NEW n \in Edges, NEW u \in Urls
  PROVE  /\ Fetched(n, u) \subseteq [url : Urls, key : Keys, epoch : Nat]
         /\ \A e \in Fetched(n, u) : \/ e.key = <<0, 0>>
                                     \/ e.key = KeyOf(running[n], e.url)
                                        /\ e.epoch = running[n].epoch[e.url]
         /\ \E e \in cached[n] \union Fetched(n, u) : e.url = u /\ e.epoch = running[n].epoch[u]
<1> DEFINE key == IF running[n].serving THEN KeyOf(running[n], u) ELSE <<0, 0>>
           e0 == [url |-> u, key |-> key, epoch |-> running[n].epoch[u]]
           hit == running[n].serving /\ \E e \in cached[n] : e.url = u /\ e.key = key
<1>1. Fetched(n, u) = IF hit THEN {} ELSE {e0}
  BY DEF Fetched
<1>2. running[n] \in CacheViews /\ KeysGoUp /\ KeysAgree /\ running[n].epoch[u] \in Nat
  BY EdgeTyped DEF CacheViews, CacheInv, Epochs
<1>3. key \in Keys
  BY <1>2, ViewKeys DEF Keys
<1>4. e0 \in [url : Urls, key : Keys, epoch : Nat]
  BY <1>2, <1>3
<1>5. e0.url = u /\ e0.epoch = running[n].epoch[u]
      /\ (e0.key = <<0, 0>> \/ e0.key = KeyOf(running[n], u))
  OBVIOUS
<1>6. hit => \E e \in cached[n] : e.url = u /\ e.epoch = running[n].epoch[u]
  <2> SUFFICES ASSUME hit PROVE \E e \in cached[n] : e.url = u /\ e.epoch = running[n].epoch[u]
    OBVIOUS
  <2>1. PICK e \in cached[n] : e.url = u /\ e.key = KeyOf(running[n], u)
    OBVIOUS
  <2> QED
    BY <1>2, <2>1 DEF KeysAgree
<1> HIDE DEF hit, e0, key
<1> QED
  BY <1>1, <1>4, <1>5, <1>6

LEMMA VisitKeeps ==
  ASSUME CacheInv, NEW n \in Edges, NEW u \in Urls, Visit(n, u) PROVE CacheInv'
<1>1. /\ cached' = [cached EXCEPT ![n] = @ \union Fetched(n, u)]
      /\ UNCHANGED <<site, publication, staged, ops, underway, lastTask, heard, running, disk, round,
                     beat, retired, lastRun, used>>
  BY DEF Visit
<1>2. cached \in [Edges -> SUBSET [url : Urls, key : Keys, epoch : Nat]]
  BY DEF CacheInv, CacheShapes
<1> DEFINE E == [url : Urls, key : Keys, epoch : Nat]
<1>3. /\ cached' \in [Edges -> SUBSET E]
      /\ cached'[n] = cached[n] \union Fetched(n, u)
      /\ \A m \in Edges : m # n => cached'[m] = cached[m]
  <2>1. Fetched(n, u) \subseteq E
    BY PageFetched
  <2> HIDE DEF E
  <2>2. cached \in [Edges -> SUBSET E]
    BY <1>2 DEF E
  <2> QED
    BY <1>1, <2>1, <2>2
<1>4. CacheShapes'
  BY <1>1, <1>3 DEF CacheInv, CacheShapes
<1>5. \A e \in cached'[n] : \/ e \in cached[n]
                            \/ e.key = <<0, 0>>
                            \/ \E t \in CacheViews :
                                 e.key = KeyOf(t, e.url) /\ e.epoch = t.epoch[e.url]
  BY <1>3, PageFetched, EdgeFacts
<1>6. RunsOrdered(n)' /\ LastRunsKept(n)'
  BY <1>1, EdgeFacts DEF RunsOrdered, LastRunsKept, Kept
<1>7. \A r \in AllResults(n)' : r \in AllResults(n)
  BY <1>1 DEF AllResults
<1>8. /\ running'[n] \in CacheViews /\ round'[n].before \subseteq CacheViews
      /\ round'[n].at # "idle" => /\ JobsWithin(running'[n].epoch, round'[n].list)
                                  /\ disk'[n].applied < round'[n].version
                                  /\ round'[n].version <= staged[n].version
      /\ disk'[n].applied <= staged[n].version /\ heard[n].version <= disk'[n].applied
      /\ beat'[n].at # "none" => /\ heard[n].version <= beat'[n].version
                                 /\ beat'[n].version <= disk'[n].applied
      /\ used'.runs >= used.runs
  BY <1>1, EdgeFacts
<1> HIDE DEF E
<1> QED
  BY <1>1, <1>3, <1>4, <1>5, <1>6, <1>7, <1>8, EdgeMoves

LEMMA LoadStateKeeps ==
  ASSUME CacheInv, NEW n \in Edges, LoadState(n) PROVE CacheInv'
<1> DEFINE new == NewRound("run", staged[n].jobs, staged[n].version, {running[n]}, disk[n].completed)
<1>1. /\ running' = [running EXCEPT ![n] = staged[n].content]
      /\ round' = [round EXCEPT ![n] = new]
      /\ UNCHANGED <<site, publication, staged, ops, underway, lastTask, heard, disk, beat, cached,
                     retired, lastRun, used>>
      /\ staged[n].version > disk[n].applied
  BY DEF LoadState, NewRound
<1>2. /\ staged[n].content \in Content /\ staged[n].jobs \in Seq(OperationIds)
      /\ staged[n].version \in Nat /\ running[n] \in Content /\ disk[n].completed \subseteq OperationIds
      /\ disk[n].applied \in Nat
  BY EdgeTyped DEF CacheInv
<1>3. /\ new \in Rounds /\ new.at = "run" /\ new.done = disk[n].completed /\ new.results = {}
      /\ new.list = staged[n].jobs /\ new.version = staged[n].version /\ new.before = {running[n]}
  <2>1. {running[n]} \in SUBSET Content /\ disk[n].completed \in SUBSET OperationIds
    BY <1>2
  <2>2. /\ new \in Rounds /\ new.at = "run" /\ new.done = disk[n].completed
        /\ new.list = staged[n].jobs /\ new.version = staged[n].version /\ new.before = {running[n]}
    BY <1>2, <2>1, RoundMade
  <2>3. new.results = {}
    BY IdleTyped DEF NewRound, Rounds
  <2> QED
    BY <2>2, <2>3
<1> HIDE DEF new
<1>4. /\ running' \in [Edges -> Content] /\ running'[n] = staged[n].content
      /\ \A m \in Edges : m # n => running'[m] = running[m]
  BY <1>1, <1>2 DEF CacheInv, CacheShapes
<1>5. /\ round' \in [Edges -> Rounds] /\ round'[n] = new
      /\ \A m \in Edges : m # n => round'[m] = round[m]
  BY <1>1, <1>3 DEF CacheInv, CacheShapes
<1>6. CacheShapes'
  BY <1>1, <1>4, <1>5 DEF CacheInv, CacheShapes
<1>7. RunsOrdered(n)'
  BY <1>1, <1>3, <1>5, EdgeFacts DEF RunsOrdered, OneEach
<1>8. LastRunsKept(n)'
  BY <1>1, <1>3, <1>5, EdgeFacts DEF LastRunsKept, Kept
<1>9. \A r \in AllResults(n)' : r \in AllResults(n)
  BY <1>1, <1>3, <1>5 DEF AllResults
<1>10. /\ running'[n] \in CacheViews /\ round'[n].before \subseteq CacheViews
       /\ JobsWithin(running'[n].epoch, round'[n].list)
       /\ disk'[n].applied < round'[n].version /\ round'[n].version <= staged[n].version
       /\ disk'[n].applied <= staged[n].version /\ heard[n].version <= disk'[n].applied
       /\ beat'[n].at # "none" => /\ heard[n].version <= beat'[n].version
                                  /\ beat'[n].version <= disk'[n].applied
       /\ used'.runs >= used.runs
  BY <1>1, <1>2, <1>3, <1>4, <1>5, EdgeFacts DEF CacheInv, JobsFollow
<1>11. cached' = cached
  BY <1>1
<1> QED
  BY <1>1, <1>4, <1>5, <1>6, <1>7, <1>8, <1>9, <1>10, <1>11, EdgeMoves

LEMMA RunJobKeeps ==
  ASSUME CacheInv, NEW n \in Edges, RunJob(n) PROVE CacheInv'
<1>1. PICK i \in ToRun(n), status \in Reported :
        LET job == round[n].list[i] IN
        /\ round' = [round EXCEPT ![n].results =
             @ \union {[job |-> job, status |-> status, run |-> used.runs + 1]}]
        /\ cached' = IF status = "failed" THEN cached
                     ELSE [cached EXCEPT ![n] =
                             @ \union UNION {Fetched(n, u) : u \in ops[job].paths}]
        /\ lastRun' = [lastRun EXCEPT ![n][job] = used.runs + 1]
  BY DEF RunJob
<1>job. PICK job : job = round[n].list[i]
  OBVIOUS
<1>r. PICK r : r = [job |-> job, status |-> status, run |-> used.runs + 1]
  OBVIOUS
<1> DEFINE fetched == UNION {Fetched(n, u) : u \in ops[job].paths}
           results == round[n].results \union {r}
<1>2. /\ UNCHANGED <<site, publication, staged, ops, underway, lastTask, heard, running, disk, beat,
                     retired>>
      /\ round[n].at = "run" /\ used.runs < MaxRuns /\ used' = [used EXCEPT !.runs = @ + 1]
  BY DEF RunJob, Count
<1>3. /\ used' \in [edits : Nat, runs : 0..MaxRuns, faults : Nat] /\ used'.runs = used.runs + 1
      /\ used.runs \in Nat /\ used.runs + 1 \in 0..MaxRuns
  BY <1>2, EdgeFacts, CacheConstants
<1>4. /\ job \in DOMAIN ops /\ job \in OperationIds
      /\ \A u \in Urls : ops[job].epoch[u] <= running[n].epoch[u]
      /\ job \notin round[n].done /\ job \notin Jobs(round[n].results)
  <2>1. i \in DOMAIN round[n].list /\ job \notin round[n].done \union Jobs(round[n].results)
    BY <1>job DEF ToRun
  <2>2. JobsWithin(running[n].epoch, round[n].list)
    BY <1>2, EdgeFacts
  <2>3. ops[job] = ops[round[n].list[i]]
    BY <1>job
  <2> QED
    BY <1>job, <2>1, <2>2, <2>3, OpsDomain DEF JobsWithin, CacheInv
<1>5. r \in Results /\ r.job = job /\ r.status = status /\ r.run = used.runs + 1
  BY <1>3, <1>4, <1>r DEF Results
<1>6. results \subseteq Results
  BY <1>5, EdgeFacts, RoundTyped
<1>7. /\ round' \in [Edges -> Rounds] /\ round'[n] \in Rounds
      /\ round'[n].results = results /\ round'[n].at = "run" /\ round'[n].done = round[n].done
      /\ round'[n].list = round[n].list /\ round'[n].version = round[n].version
      /\ round'[n].before = round[n].before
      /\ \A m \in Edges : m # n => round'[m] = round[m]
  <2> DEFINE new == RoundAs(round[n], round[n].at, round[n].done, results, round[n].failed)
  <2>1. /\ round[n] \in Rounds /\ round[n].at \in {"idle", "run", "save", "persist"}
        /\ round[n].done \in SUBSET OperationIds /\ round[n].failed \in Nat
        /\ results \in SUBSET Results
    BY <1>6, EdgeFacts, RoundTyped
  <2> HIDE DEF results
  <2>2. /\ new \in Rounds /\ new.results = results /\ new.at = round[n].at
        /\ new.done = round[n].done /\ new.list = round[n].list
        /\ new.version = round[n].version /\ new.before = round[n].before
    BY <2>1, RoundWith
  <2>3. [round[n] EXCEPT !.results = results] = new
    BY <2>1 DEF Rounds, RoundAs
  <2>4. round' = [round EXCEPT ![n] = [round[n] EXCEPT !.results = results]]
    BY <1>1, <1>job, <1>r DEF results
  <2>5. round' = [round EXCEPT ![n] = new]
    BY <2>3, <2>4
  <2> HIDE DEF new
  <2> QED
    BY <1>2, <2>2, <2>5 DEF CacheInv, CacheShapes
<1>8. /\ lastRun' \in [Edges -> [OperationIds -> 0..MaxRuns]]
      /\ lastRun'[n][job] = used.runs + 1
      /\ \A o \in OperationIds : o # job => lastRun'[n][o] = lastRun[n][o]
      /\ \A m \in Edges : m # n => lastRun'[m] = lastRun[m]
  <2>1. lastRun \in [Edges -> [OperationIds -> 0..MaxRuns]]
    BY DEF CacheInv, CacheShapes
  <2>2. lastRun' = [lastRun EXCEPT ![n][job] = used.runs + 1]
    BY <1>1, <1>job
  <2> QED
    BY <1>3, <1>4, <2>1, <2>2
<1>9. ops[job].paths \subseteq Urls
  BY <1>4, RowTyped DEF CacheInv
<1>10. /\ fetched \subseteq [url : Urls, key : Keys, epoch : Nat]
       /\ \A e \in fetched : \/ e.key = <<0, 0>>
                             \/ e.key = KeyOf(running[n], e.url)
                                /\ e.epoch = running[n].epoch[e.url]
       /\ \A u \in ops[job].paths :
            \E e \in cached[n] \union fetched : e.url = u /\ e.epoch = running[n].epoch[u]
  <2>1. ASSUME NEW e \in fetched
        PROVE  \E u \in Urls : e \in Fetched(n, u)
    BY <1>9
  <2>2. \A u \in ops[job].paths : Fetched(n, u) \subseteq fetched
    OBVIOUS
  <2> HIDE DEF fetched
  <2> QED
    BY <1>9, <2>1, <2>2, PageFetched
<1> HIDE DEF fetched
<1>11. /\ cached' \in [Edges -> SUBSET [url : Urls, key : Keys, epoch : Nat]]
       /\ \A m \in Edges : m # n => cached'[m] = cached[m]
       /\ cached[n] \subseteq cached'[n]
       /\ cached'[n] \subseteq cached[n] \union fetched
       /\ status # "failed" => cached'[n] = cached[n] \union fetched
  <2> DEFINE E == [url : Urls, key : Keys, epoch : Nat]
  <2>1. cached \in [Edges -> SUBSET E] /\ fetched \subseteq E
    BY <1>10 DEF CacheInv, CacheShapes
  <2>2. cached' = IF status = "failed" THEN cached
                  ELSE [cached EXCEPT ![n] = cached[n] \union fetched]
    BY <1>1, <1>job DEF fetched
  <2> HIDE DEF E
  <2>3. CASE status = "failed"
    BY <2>1, <2>2, <2>3 DEF E
  <2>4. CASE status # "failed"
    <3>1. cached' = [cached EXCEPT ![n] = cached[n] \union fetched]
      BY <2>2, <2>4
    <3>2. cached[n] \union fetched \in SUBSET E
      BY <2>1
    <3>3. cached' \in [Edges -> SUBSET E]
      BY <2>1, <3>1, <3>2
    <3>4. cached'[n] = cached[n] \union fetched /\ \A m \in Edges : m # n => cached'[m] = cached[m]
      BY <2>1, <3>1
    <3> QED
      BY <3>3, <3>4 DEF E
  <2> QED
    BY <2>3, <2>4
<1>12. CacheShapes'
  BY <1>2, <1>3, <1>7, <1>8, <1>11 DEF CacheInv, CacheShapes
<1>13. status = "succeeded" => Warmed(n, job)'
  <2> SUFFICES ASSUME status = "succeeded", NEW u \in ops[job].paths
               PROVE  \E e \in cached'[n] : e.url = u /\ e.epoch >= ops[job].epoch[u]
    BY <1>2 DEF Warmed
  <2>1. PICK e \in cached'[n] : e.url = u /\ e.epoch = running[n].epoch[u]
    BY <1>10, <1>11
  <2>2. running[n].epoch[u] \in Nat /\ ops[job].epoch[u] \in Nat
        /\ ops[job].epoch[u] <= running[n].epoch[u]
    BY <1>4, <1>9, EdgeTyped, RowTyped DEF CacheInv, Epochs
  <2> QED
    BY <2>1, <2>2
<1>14. ASSUME NEW q \in AllResults(n)'
       PROVE  \/ q \in AllResults(n)
              \/ q.job \in DOMAIN ops /\ (q.status = "succeeded" => Warmed(n, q.job)')
  <2>1. q \in AllResults(n) \/ q = r
    BY <1>2, <1>7 DEF AllResults
  <2> QED
    BY <1>4, <1>5, <1>13, <2>1
<1>15. \A p \in AllResults(n) : p.job \in OperationIds /\ p.run \in Nat
  <2>1. AllResults(n) \subseteq Results
    BY EdgeFacts, RoundTyped, BeatTyped DEF AllResults, Disks
  <2> QED
    BY <2>1, ResultTyped, CacheConstants
<1>16. \A o \in OperationIds : lastRun[n][o] \in Nat /\ lastRun[n][o] <= used.runs
                               /\ lastRun'[n][o] \in Nat /\ lastRun[n][o] <= lastRun'[n][o]
                               /\ lastRun'[n][o] <= used'.runs
  <2>1. \A o \in OperationIds : lastRun[n][o] \in Nat /\ lastRun[n][o] <= used.runs
    BY EdgeFacts, EdgeTyped, CacheConstants DEF RunsOrdered, CacheInv
  <2> QED
    BY <1>3, <1>8, <2>1
<1>17. RunsOrdered(n)'
  <2>1. RunsOrdered(n)
    BY EdgeFacts
  <2>2. \A o \in OperationIds : lastRun'[n][o] <= used'.runs
    BY <1>16
  <2>3. \A o \in DOMAIN ops' : ops'[o].rows[n].run <= lastRun'[n][o]
    <3> SUFFICES ASSUME NEW o \in DOMAIN ops PROVE ops[o].rows[n].run <= lastRun'[n][o]
      BY <1>2
    <3>1. o \in OperationIds /\ ops[o].rows[n].run \in Nat
      BY OpsDomain, RowTyped, CacheConstants DEF CacheInv
    <3> QED
      BY <1>16, <2>1, <3>1 DEF RunsOrdered
  <2>4. OneEach(round'[n].results) /\ OneEach(disk'[n].pending) /\ OneEach(beat'[n].results)
    <3>1. \A p \in round[n].results : p.job # r.job
      BY <1>4, <1>5 DEF Jobs
    <3> QED
      BY <1>2, <1>7, <2>1, <3>1 DEF RunsOrdered, OneEach
  <2>5. \A p \in round'[n].results : p.run = lastRun'[n][p.job]
    <3>1. \A p \in round[n].results : p.job # job /\ p.job \in OperationIds
      BY <1>4, <1>15 DEF Jobs, AllResults
    <3> QED
      BY <1>5, <1>7, <1>8, <2>1, <3>1 DEF RunsOrdered
  <2>6. \A p \in disk'[n].pending :
          ops'[p.job].rows[n].run <= p.run /\ p.run <= lastRun'[n][p.job]
    <3>1. \A p \in disk[n].pending : p.job \in OperationIds /\ p.run \in Nat
      BY <1>15 DEF AllResults
    <3> QED
      BY <1>2, <1>16, <2>1, <3>1 DEF RunsOrdered
  <2>7. \A p \in beat'[n].results :
          /\ p.run <= lastRun'[n][p.job]
          /\ beat'[n].at = "sent" => ops'[p.job].rows[n].run <= p.run
          /\ beat'[n].at = "handled" => ops'[p.job].rows[n].run = p.run
          /\ \A q \in disk'[n].pending : q.job = p.job => p.run <= q.run
    <3>1. \A p \in beat[n].results : p.job \in OperationIds /\ p.run \in Nat
      BY <1>15 DEF AllResults
    <3> QED
      BY <1>2, <1>16, <2>1, <3>1 DEF RunsOrdered
  <2> QED
    BY <2>2, <2>3, <2>4, <2>5, <2>6, <2>7 DEF RunsOrdered
<1>18. LastRunsKept(n)'
  <2>1. LastRunsKept(n) /\ round[n].done = disk[n].completed
    BY <1>2, EdgeFacts DEF LastRunsKept
  <2>2. \A o \in disk[n].completed : o # job /\ o \in OperationIds
    BY <1>4, <2>1, EdgeTyped DEF CacheInv
  <2>3. \A o \in disk'[n].completed : Kept(n, o)'
    BY <1>2, <1>8, <2>1, <2>2 DEF LastRunsKept, Kept
  <2>4. \A p \in round'[n].results : p.job \notin round'[n].done
    BY <1>4, <1>5, <1>7, <2>1, <1>2 DEF LastRunsKept
  <2> QED
    BY <1>2, <1>7, <2>1, <2>3, <2>4 DEF LastRunsKept
<1>19. /\ running'[n] \in CacheViews /\ round'[n].before \subseteq CacheViews
       /\ JobsWithin(running'[n].epoch, round'[n].list)
       /\ disk'[n].applied < round'[n].version /\ round'[n].version <= staged[n].version
       /\ disk'[n].applied <= staged[n].version /\ heard[n].version <= disk'[n].applied
       /\ beat'[n].at # "none" => /\ heard[n].version <= beat'[n].version
                                  /\ beat'[n].version <= disk'[n].applied
       /\ used'.runs >= used.runs
  BY <1>2, <1>3, <1>7, EdgeFacts
<1>20. \A e \in cached'[n] : \/ e \in cached[n]
                             \/ e.key = <<0, 0>>
                             \/ \E t \in CacheViews :
                                  e.key = KeyOf(t, e.url) /\ e.epoch = t.epoch[e.url]
  BY <1>10, <1>11, EdgeFacts
<1> HIDE DEF results
<1> QED
  BY <1>2, <1>7, <1>8, <1>11, <1>12, <1>14, <1>17, <1>18, <1>19, <1>20, EdgeMoves


\* The runs of one edge, with a disk, a round and a heartbeat given.
RunsFit(n, d, r, b) ==
  /\ OneEach(r.results) /\ OneEach(d.pending) /\ OneEach(b.results)
  /\ \A p \in r.results : p.run = lastRun[n][p.job]
  /\ \A p \in d.pending : ops[p.job].rows[n].run <= p.run /\ p.run <= lastRun[n][p.job]
  /\ \A p \in b.results :
       /\ p.run <= lastRun[n][p.job]
       /\ b.at = "sent" => ops[p.job].rows[n].run <= p.run
       /\ b.at = "handled" => ops[p.job].rows[n].run = p.run
       /\ \A q \in d.pending : q.job = p.job => p.run <= q.run
KeptBy(n, d, job) ==
  \/ ops[job].rows[n].run = lastRun[n][job]
  \/ \E p \in d.pending : p.job = job /\ p.run = lastRun[n][job]
LastFit(n, d, r) ==
  /\ d.completed \union r.done \subseteq DOMAIN ops
  /\ \A job \in d.completed : KeptBy(n, d, job)
  /\ r.at = "run" => r.done = d.completed /\ \A p \in r.results : p.job \notin r.done
  /\ r.at = "save" => \A job \in r.done : KeptBy(n, d, job)

LEMMA RunsFitNow ==
  ASSUME CacheInv, NEW n \in Edges
  PROVE  /\ RunsFit(n, disk[n], round[n], beat[n]) /\ LastFit(n, disk[n], round[n])
         /\ \A job \in OperationIds : lastRun[n][job] <= used.runs
         /\ \A o \in DOMAIN ops : ops[o].rows[n].run <= lastRun[n][o]
         /\ \A p \in AllResults(n) : p \in Results /\ p.job \in DOMAIN ops /\ p.run \in Nat
<1>1. RunsOrdered(n) /\ LastRunsKept(n)
  BY EdgeFacts
<1>2. AllResults(n) \subseteq Results
  BY EdgeFacts, RoundTyped, BeatTyped DEF AllResults, Disks
<1> QED
  BY <1>1, <1>2, EdgeFacts, ResultTyped, CacheConstants
     DEF RunsOrdered, LastRunsKept, Kept, RunsFit, LastFit, KeptBy

\* A step of one edge that fetches nothing and tells the controller nothing.
LEMMA EdgeKeeps ==
  ASSUME CacheInv, NEW n \in Edges, NEW d \in Disks, NEW r \in Rounds, NEW b \in Beats,
         NEW c \in CacheViews, c \in Content,
         UNCHANGED <<site, publication, staged, ops, underway, lastTask, heard, cached, retired,
                     lastRun>>,
         disk' = [disk EXCEPT ![n] = d], round' = [round EXCEPT ![n] = r],
         beat' = [beat EXCEPT ![n] = b], running' = [running EXCEPT ![n] = c],
         used' \in [edits : Nat, runs : 0..MaxRuns, faults : Nat], used'.runs = used.runs,
         r.before \subseteq round[n].before,
         r.at # "idle" => /\ round[n].at # "idle" /\ r.list = round[n].list
                          /\ r.version = round[n].version /\ c = running[n]
                          /\ d.applied < r.version,
         disk[n].applied <= d.applied, d.applied <= staged[n].version,
         b.at # "none" => heard[n].version <= b.version /\ b.version <= d.applied,
         r.results \union d.pending \union b.results \subseteq AllResults(n),
         RunsFit(n, d, r, b), LastFit(n, d, r)
  PROVE  CacheInv'
<1>1. /\ disk' \in [Edges -> Disks] /\ disk'[n] = d
      /\ \A m \in Edges : m # n => disk'[m] = disk[m]
  BY DEF CacheInv, CacheShapes, Disks
<1>2. /\ round' \in [Edges -> Rounds] /\ round'[n] = r
      /\ \A m \in Edges : m # n => round'[m] = round[m]
  BY DEF CacheInv, CacheShapes
<1>3. /\ beat' \in [Edges -> Beats] /\ beat'[n] = b
      /\ \A m \in Edges : m # n => beat'[m] = beat[m]
  BY DEF CacheInv, CacheShapes
<1>4. /\ running' \in [Edges -> Content] /\ running'[n] = c
      /\ \A m \in Edges : m # n => running'[m] = running[m]
  BY DEF CacheInv, CacheShapes
<1>5. CacheShapes'
  BY <1>1, <1>2, <1>3, <1>4 DEF CacheInv, CacheShapes, Disks
<1>6. RunsOrdered(n)'
  BY <1>1, <1>2, <1>3, RunsFitNow DEF RunsOrdered, RunsFit
<1>7. LastRunsKept(n)'
  BY <1>1, <1>2 DEF LastRunsKept, LastFit, Kept, KeptBy
<1>8. \A q \in AllResults(n)' : q \in AllResults(n)
  BY <1>1, <1>2, <1>3 DEF AllResults
<1>9. /\ running'[n] \in CacheViews /\ round'[n].before \subseteq CacheViews
      /\ round'[n].at # "idle" => /\ JobsWithin(running'[n].epoch, round'[n].list)
                                  /\ disk'[n].applied < round'[n].version
                                  /\ round'[n].version <= staged[n].version
      /\ disk'[n].applied <= staged[n].version /\ heard[n].version <= disk'[n].applied
      /\ beat'[n].at # "none" => /\ heard[n].version <= beat'[n].version
                                 /\ beat'[n].version <= disk'[n].applied
      /\ used'.runs >= used.runs
  <2>1. /\ disk[n].applied \in Nat /\ d.applied \in Nat /\ heard[n].version \in Nat
        /\ used.runs \in Nat
    BY EdgeFacts, EdgeTyped, DiskTyped DEF CacheInv
  <2> QED
    BY <1>1, <1>2, <1>3, <1>4, <2>1, EdgeFacts
<1> QED
  BY <1>1, <1>2, <1>3, <1>4, <1>5, <1>6, <1>7, <1>8, <1>9, EdgeMoves

\* A function that is left as it is at every argument.
LEMMA StaysAt ==
  ASSUME NEW f, NEW S, f \in [Edges -> S], NEW n \in Edges
  PROVE  f = [f EXCEPT ![n] = f[n]] /\ f[n] \in S
OBVIOUS

LEMMA EdgesStay ==
  ASSUME CacheInv, NEW n \in Edges
  PROVE  /\ disk = [disk EXCEPT ![n] = disk[n]] /\ round = [round EXCEPT ![n] = round[n]]
         /\ beat = [beat EXCEPT ![n] = beat[n]] /\ running = [running EXCEPT ![n] = running[n]]
         /\ running[n] \in Content /\ running[n] \in CacheViews
         /\ disk[n] \in Disks /\ round[n] \in Rounds /\ beat[n] \in Beats
<1>1. /\ disk \in [Edges -> Disks] /\ round \in [Edges -> Rounds] /\ beat \in [Edges -> Beats]
      /\ running \in [Edges -> Content]
  BY DEF CacheInv, CacheShapes, Disks
<1> QED
  BY <1>1, StaysAt, EdgeFacts

\* What a fault leaves of the counters.
LEMMA CountersStay ==
  ASSUME CacheInv, Fault \/ UNCHANGED used
  PROVE  used' \in [edits : Nat, runs : 0..MaxRuns, faults : Nat] /\ used'.runs = used.runs
<1>1. used \in [edits : Nat, runs : 0..MaxRuns, faults : Nat]
  BY DEF CacheInv, CacheShapes
<1> QED
  BY <1>1 DEF Fault, Count

LEMMA QueueResultsKeeps ==
  ASSUME CacheInv, NEW n \in Edges, QueueResults(n) PROVE CacheInv'
<1>n. PICK new \in SUBSET Results : new = round[n].results
  BY EdgeFacts, RoundTyped
<1>k. PICK kept \in SUBSET Results : kept = {p \in disk[n].pending : p.job \notin Jobs(new)}
  BY EdgeFacts, DiskTyped
<1>0. round[n].at = "run" /\ round[n].done = disk[n].completed
  BY RunsFitNow DEF QueueResults, LastFit
<1>1. Jobs(new) \in SUBSET OperationIds
  BY ResultTyped DEF Jobs
<1>2. PICK P \in SUBSET Results, D \in SUBSET OperationIds :
        /\ disk' = [disk EXCEPT ![n] = [disk[n] EXCEPT !.pending = P]]
        /\ round' = [round EXCEPT ![n] = [round[n] EXCEPT !.at = "save", !.done = D]]
        /\ \/ P = disk[n].pending /\ D = round[n].done
           \/ P = kept \union new /\ D = round[n].done \union Jobs(new)
  <2>0. disk \in [Edges -> Disks] /\ round \in [Edges -> Rounds]
    BY DEF CacheInv, CacheShapes, Disks
  <2>1. CASE /\ disk' = [disk EXCEPT ![n].pending = kept \union new]
             /\ round' = [round EXCEPT ![n].at = "save", ![n].done = @ \union Jobs(new)]
    <3>1. /\ disk' = [disk EXCEPT ![n] = [disk[n] EXCEPT !.pending = kept \union new]]
          /\ round' = [round EXCEPT ![n] = [round[n] EXCEPT !.at = "save",
                                              !.done = round[n].done \union Jobs(new)]]
      BY <2>0, <2>1
    <3>2. kept \union new \in SUBSET Results /\ round[n].done \union Jobs(new) \in SUBSET OperationIds
      BY <1>1, EdgeFacts, RoundTyped
    <3> QED
      BY <3>1, <3>2
  <2>2. CASE disk' = disk /\ round' = [round EXCEPT ![n].at = "save"]
    <3>1. disk[n] = [disk[n] EXCEPT !.pending = disk[n].pending]
      BY EdgeFacts DEF Disks
    <3>2. [round[n] EXCEPT !.at = "save"]
            = [round[n] EXCEPT !.at = "save", !.done = round[n].done]
      BY EdgeFacts DEF Rounds
    <3>3. disk' = [disk EXCEPT ![n] = disk[n]]
          /\ round' = [round EXCEPT ![n] = [round[n] EXCEPT !.at = "save"]]
      BY <2>0, <2>2, EdgesStay
    <3>4. disk[n].pending \in SUBSET Results /\ round[n].done \in SUBSET OperationIds
      BY EdgeFacts, RoundTyped, DiskTyped
    <3> QED
      BY <3>1, <3>2, <3>3, <3>4
  <2> QED
    BY <1>n, <1>k, <2>1, <2>2 DEF QueueResults
<1>3. PICK d \in Disks : /\ disk' = [disk EXCEPT ![n] = d] /\ d.pending = P
                         /\ d.completed = disk[n].completed /\ d.applied = disk[n].applied
  <2>1. [disk[n] EXCEPT !.pending = P] = DiskAs(disk[n], disk[n].applied, disk[n].completed, P)
    BY EdgeFacts DEF DiskAs, Disks
  <2>2. disk[n].applied \in Nat /\ disk[n].completed \in SUBSET OperationIds /\ disk[n] \in Disks
    BY EdgeFacts, DiskTyped
  <2>3. LET x == DiskAs(disk[n], disk[n].applied, disk[n].completed, P) IN
        /\ x \in Disks /\ x.pending = P /\ x.completed = disk[n].completed
        /\ x.applied = disk[n].applied
    BY <2>2, DiskWith
  <2> QED
    BY <1>2, <2>1, <2>3
<1>4. PICK r \in Rounds : /\ round' = [round EXCEPT ![n] = r] /\ r.at = "save" /\ r.done = D
                          /\ r.results = new /\ r.list = round[n].list
                          /\ r.version = round[n].version /\ r.before = round[n].before
  <2>1. [round[n] EXCEPT !.at = "save", !.done = D]
          = RoundAs(round[n], "save", D, new, round[n].failed)
    BY <1>n, EdgeFacts DEF RoundAs, Rounds
  <2>2. round[n].failed \in Nat /\ round[n] \in Rounds
    BY EdgeFacts, RoundTyped
  <2>3. "save" \in {"idle", "run", "save", "persist"}
    OBVIOUS
  <2>4. LET x == RoundAs(round[n], "save", D, new, round[n].failed) IN
        /\ x \in Rounds /\ x.at = "save" /\ x.done = D /\ x.results = new
        /\ x.list = round[n].list /\ x.version = round[n].version /\ x.before = round[n].before
    BY <2>2, <2>3, RoundWith
  <2> QED
    BY <1>2, <2>1, <2>4
<1>5. \A p \in new \union disk[n].pending : p \in Results /\ p.job \in DOMAIN ops /\ p.run \in Nat
  BY <1>n, RunsFitNow DEF AllResults
<1>6. RunsFit(n, d, r, beat[n])
  <2>1. /\ OneEach(new) /\ \A p \in new : p.run = lastRun[n][p.job]
        /\ \A p \in new : ops[p.job].rows[n].run <= lastRun[n][p.job]
    BY <1>n, <1>5, RunsFitNow DEF RunsFit
  <2>2. P \subseteq new \union disk[n].pending
    BY <1>2, <1>k
  <2>3. OneEach(P)
    <3>1. \A p \in kept, q \in new : p.job # q.job
      BY <1>k DEF Jobs
    <3>2. OneEach(disk[n].pending)
      BY RunsFitNow DEF RunsFit
    <3> QED
      BY <1>2, <1>k, <2>1, <3>1, <3>2 DEF OneEach
  <2>4. RunsFit(n, disk[n], round[n], beat[n])
    BY RunsFitNow
  <2>5. \A p \in P : ops[p.job].rows[n].run <= p.run /\ p.run <= lastRun[n][p.job]
    BY <1>5, <2>1, <2>2, <2>4 DEF RunsFit
  <2>6. \A p \in beat[n].results : \A q \in P : q.job = p.job => p.run <= q.run
    BY <1>5, <2>1, <2>2, <2>4 DEF RunsFit
  <2> QED
    BY <1>3, <1>4, <2>1, <2>3, <2>4, <2>5, <2>6 DEF RunsFit
<1>7. LastFit(n, d, r)
  <2>1. /\ disk[n].completed \subseteq DOMAIN ops
        /\ \A job \in disk[n].completed : KeptBy(n, disk[n], job)
        /\ \A p \in new : p.run = lastRun[n][p.job]
    BY <1>n, RunsFitNow DEF LastFit, RunsFit
  <2>2. Jobs(new) \subseteq DOMAIN ops
    BY <1>5 DEF Jobs
  <2>3. ASSUME NEW job \in D PROVE KeptBy(n, d, job)
    <3>1. CASE job \in Jobs(new) /\ new \subseteq P
      <4>1. PICK p \in new : p.job = job
        BY <3>1 DEF Jobs
      <4> QED
        BY <1>3, <2>1, <3>1, <4>1 DEF KeptBy
    <3>2. CASE job \notin Jobs(new)
      <4>1. KeptBy(n, disk[n], job)
        BY <1>0, <1>2, <2>1, <2>3, <3>2
      <4>2. \A p \in disk[n].pending : p.job = job => p \in P
        BY <1>2, <1>k, <3>2
      <4> QED
        BY <1>3, <4>1, <4>2 DEF KeptBy
    <3>3. CASE P = disk[n].pending /\ D = round[n].done
      BY <1>0, <1>3, <2>1, <2>3, <3>3 DEF KeptBy
    <3> QED
      BY <1>2, <3>1, <3>2, <3>3
  <2>4. disk[n].completed \subseteq D /\ D \subseteq DOMAIN ops
    BY <1>0, <1>2, <2>1, <2>2
  <2> QED
    BY <1>3, <1>4, <2>1, <2>3, <2>4 DEF LastFit
<1>8. /\ UNCHANGED <<site, publication, staged, ops, underway, lastTask, heard, running, beat,
                     cached, retired, lastRun>>
      /\ Fault \/ UNCHANGED used
  BY DEF QueueResults
<1>9. r.results \union d.pending \union beat[n].results \subseteq AllResults(n)
  BY <1>2, <1>3, <1>4, <1>n, <1>k DEF AllResults
<1>10. /\ disk[n].applied <= d.applied /\ d.applied <= staged[n].version /\ d.applied < r.version
       /\ beat[n].at # "none" => /\ heard[n].version <= beat[n].version
                                 /\ beat[n].version <= d.applied
  <2>1. disk[n].applied \in Nat
    BY EdgeFacts, DiskTyped
  <2> QED
    BY <1>0, <1>3, <1>4, <2>1, EdgeFacts
<1>11. r.at # "idle" => /\ round[n].at # "idle" /\ r.list = round[n].list
                        /\ r.version = round[n].version
  BY <1>0, <1>4
<1> QED
  BY <1>3, <1>4, <1>6, <1>7, <1>8, <1>9, <1>10, <1>11, EdgesStay, CountersStay, EdgeKeeps

LEMMA SaveCompletedKeeps ==
  ASSUME CacheInv, NEW n \in Edges, SaveCompleted(n) PROVE CacheInv'
<1>0. round[n].at = "save" /\ round' = [round EXCEPT ![n].at = "persist"]
  BY DEF SaveCompleted
<1>1. PICK C \in SUBSET OperationIds : /\ disk' = [disk EXCEPT ![n] = [disk[n] EXCEPT !.completed = C]]
                                       /\ C \subseteq round[n].done \/ C = disk[n].completed
  <2>0. disk \in [Edges -> Disks] /\ disk[n].completed \in SUBSET OperationIds
        /\ round[n].done \in SUBSET OperationIds
    BY EdgeFacts, DiskTyped, RoundTyped DEF CacheInv, CacheShapes, Disks
  <2>1. CASE \E S : disk' = [disk EXCEPT ![n].completed = round[n].done \intersect S]
    BY <2>0, <2>1
  <2>2. CASE disk' = disk
    <3>1. disk[n] = [disk[n] EXCEPT !.completed = disk[n].completed]
      BY EdgeFacts DEF Disks
    <3>2. disk' = [disk EXCEPT ![n] = disk[n]]
      BY <2>2, EdgesStay
    <3> QED
      BY <2>0, <3>1, <3>2
  <2> QED
    BY <2>1, <2>2 DEF SaveCompleted
<1>2. PICK d \in Disks : /\ disk' = [disk EXCEPT ![n] = d] /\ d.pending = disk[n].pending
                         /\ d.completed = C /\ d.applied = disk[n].applied
  <2>1. [disk[n] EXCEPT !.completed = C] = DiskAs(disk[n], disk[n].applied, C, disk[n].pending)
    BY EdgeFacts DEF DiskAs, Disks
  <2>2. disk[n].applied \in Nat /\ disk[n].pending \in SUBSET Results /\ disk[n] \in Disks
    BY EdgeFacts, DiskTyped
  <2>3. LET x == DiskAs(disk[n], disk[n].applied, C, disk[n].pending) IN
        /\ x \in Disks /\ x.pending = disk[n].pending /\ x.completed = C
        /\ x.applied = disk[n].applied
    BY <2>2, DiskWith
  <2> QED
    BY <1>1, <2>1, <2>3
<1>3. PICK r \in Rounds : /\ round' = [round EXCEPT ![n] = r] /\ r.at = "persist"
                          /\ r.done = round[n].done
                          /\ r.results = round[n].results /\ r.list = round[n].list
                          /\ r.version = round[n].version /\ r.before = round[n].before
  <2>1. [round[n] EXCEPT !.at = "persist"]
          = RoundAs(round[n], "persist", round[n].done, round[n].results, round[n].failed)
    BY EdgeFacts DEF RoundAs, Rounds
  <2>2. /\ round[n].failed \in Nat /\ round[n] \in Rounds /\ round[n].done \in SUBSET OperationIds
        /\ round[n].results \in SUBSET Results
    BY EdgeFacts, RoundTyped
  <2>3. round' = [round EXCEPT ![n] = [round[n] EXCEPT !.at = "persist"]]
    BY <1>0
  <2>4. "persist" \in {"idle", "run", "save", "persist"}
    OBVIOUS
  <2>5. LET x == RoundAs(round[n], "persist", round[n].done, round[n].results, round[n].failed) IN
        /\ x \in Rounds /\ x.at = "persist" /\ x.done = round[n].done
        /\ x.results = round[n].results
        /\ x.list = round[n].list /\ x.version = round[n].version /\ x.before = round[n].before
    BY <2>2, <2>4, RoundWith
  <2> QED
    BY <2>1, <2>3, <2>5
<1>4. RunsFit(n, d, r, beat[n])
  BY <1>2, <1>3, RunsFitNow DEF RunsFit
<1>5. LastFit(n, d, r)
  <2>1. LastFit(n, disk[n], round[n])
    BY RunsFitNow
  <2> QED
    BY <1>0, <1>1, <1>2, <1>3, <2>1 DEF LastFit, KeptBy
<1>6. /\ UNCHANGED <<site, publication, staged, ops, underway, lastTask, heard, running, beat,
                     cached, retired, lastRun>>
      /\ Fault \/ UNCHANGED used
  BY DEF SaveCompleted
<1>7. r.results \union d.pending \union beat[n].results \subseteq AllResults(n)
  BY <1>2, <1>3 DEF AllResults
<1>8. /\ disk[n].applied <= d.applied /\ d.applied <= staged[n].version /\ d.applied < r.version
      /\ beat[n].at # "none" => /\ heard[n].version <= beat[n].version
                                /\ beat[n].version <= d.applied
  <2>1. disk[n].applied \in Nat
    BY EdgeFacts, DiskTyped
  <2> QED
    BY <1>0, <1>2, <1>3, <2>1, EdgeFacts
<1>9. r.at # "idle" => /\ round[n].at # "idle" /\ r.list = round[n].list
                       /\ r.version = round[n].version
  BY <1>0, <1>3
<1> QED
  BY <1>2, <1>3, <1>4, <1>5, <1>6, <1>7, <1>8, <1>9, EdgesStay, CountersStay, EdgeKeeps

\* A round that is over has nothing of its own.
LEMMA IdleFits ==
  ASSUME CacheInv, NEW n \in Edges, NEW d, NEW r, NEW b, r.results = {}, r.done = {}, r.at = "idle",
         d.pending = disk[n].pending, d.completed = disk[n].completed,
         b = beat[n] \/ b.results = {}
  PROVE  RunsFit(n, d, r, b) /\ LastFit(n, d, r)
<1>1. RunsFit(n, disk[n], round[n], beat[n]) /\ LastFit(n, disk[n], round[n])
  BY RunsFitNow
<1>2. RunsFit(n, d, r, b)
  BY <1>1 DEF RunsFit, OneEach
<1>3. LastFit(n, d, r)
  BY <1>1 DEF LastFit, KeptBy
<1> QED
  BY <1>2, <1>3

LEMMA IdleFailed ==
  ASSUME NEW v \in Nat
  PROVE  LET r == [Idle EXCEPT !.failed = v] IN
         r \in Rounds /\ r.at = "idle" /\ r.results = {} /\ r.done = {} /\ r.before = {}
<1> DEFINE r == [Idle EXCEPT !.failed = v]
           B == SUBSET Content
           R == SUBSET Results
<1>1. Idle \in [at : {"idle", "run", "save", "persist"}, list : Seq(OperationIds), version : Nat,
                before : B, done : SUBSET OperationIds, results : R, failed : Nat]
  BY IdleTyped DEF Rounds
<1> HIDE DEF B, R
<1>2. r \in [at : {"idle", "run", "save", "persist"}, list : Seq(OperationIds), version : Nat,
             before : B, done : SUBSET OperationIds, results : R, failed : Nat]
  BY <1>1
<1>3. r \in Rounds
  BY <1>2 DEF Rounds, B, R
<1>4. /\ r.at = Idle.at /\ r.results = Idle.results /\ r.done = Idle.done
      /\ r.before = Idle.before
  BY <1>1
<1> QED
  BY <1>3, <1>4, IdleTyped

LEMMA PersistStateKeeps ==
  ASSUME CacheInv, NEW n \in Edges, PersistState(n) PROVE CacheInv'
<1>1. /\ UNCHANGED <<site, publication, staged, ops, underway, lastTask, heard, beat,
                     cached, retired, lastRun>>
      /\ (Fault \/ UNCHANGED used) /\ round[n].at = "persist"
  BY DEF PersistState
<1>2. /\ disk[n].applied \in Nat /\ round[n].version \in Nat /\ staged[n].version \in Nat
      /\ disk[n].applied < round[n].version /\ round[n].version <= staged[n].version
      /\ heard[n].version \in Nat /\ round[n] \in Rounds
  BY EdgeFacts, DiskTyped, RoundTyped, EdgeTyped DEF CacheInv, PersistState
<1>3. CASE /\ disk' = [disk EXCEPT ![n].applied = round[n].version]
           /\ round' = [round EXCEPT ![n] = Idle] /\ UNCHANGED <<running, used>>
  <2>1. PICK d \in Disks : /\ disk' = [disk EXCEPT ![n] = d] /\ d.pending = disk[n].pending
                           /\ d.completed = disk[n].completed /\ d.applied = round[n].version
    <3> DEFINE x == DiskAs(disk[n], round[n].version, disk[n].completed, disk[n].pending)
    <3>1. [disk[n] EXCEPT !.applied = round[n].version] = x
      BY EdgeFacts DEF DiskAs, Disks
    <3>2. disk[n].completed \in SUBSET OperationIds /\ disk[n].pending \in SUBSET Results
          /\ disk[n] \in Disks
      BY EdgeFacts, DiskTyped
    <3>3. /\ x \in Disks /\ x.pending = disk[n].pending /\ x.completed = disk[n].completed
          /\ x.applied = round[n].version
      BY <1>2, <3>2, DiskWith
    <3>4. disk' = [disk EXCEPT ![n] = [disk[n] EXCEPT !.applied = round[n].version]]
      BY <1>3
    <3> QED
      BY <3>1, <3>3, <3>4
  <2>2. PICK r \in Rounds : /\ round' = [round EXCEPT ![n] = r] /\ r.at = "idle" /\ r.results = {}
                            /\ r.done = {} /\ r.before = {}
    BY <1>3, IdleTyped
  <2>3. RunsFit(n, d, r, beat[n]) /\ LastFit(n, d, r)
    BY <2>1, <2>2, IdleFits
  <2>4. r.results \union d.pending \union beat[n].results \subseteq AllResults(n)
    BY <2>1, <2>2 DEF AllResults
  <2>5. /\ disk[n].applied <= d.applied /\ d.applied <= staged[n].version
        /\ beat[n].at # "none" => /\ heard[n].version <= beat[n].version
                                  /\ beat[n].version <= d.applied
    <3>1. beat[n].version \in Nat
      BY EdgeFacts, BeatTyped
    <3> QED
      BY <1>2, <2>1, <3>1, EdgeFacts
  <2>6. running' = [running EXCEPT ![n] = running[n]] /\ beat' = [beat EXCEPT ![n] = beat[n]]
    BY <1>1, <1>3, EdgesStay
  <2>7. used' \in [edits : Nat, runs : 0..MaxRuns, faults : Nat] /\ used'.runs = used.runs
    BY <1>3, CountersStay
  <2>8. r.before \subseteq round[n].before
    BY <2>2
  <2> QED
    BY <1>1, <2>1, <2>2, <2>3, <2>4, <2>5, <2>6, <2>7, <2>8, EdgesStay, EdgeKeeps
<1>4. CASE /\ Fault /\ UNCHANGED disk
           /\ \E before \in round[n].before : running' = [running EXCEPT ![n] = before]
           /\ round' = [round EXCEPT ![n] = [Idle EXCEPT !.failed = round[n].version]]
  <2>1. PICK c \in round[n].before : running' = [running EXCEPT ![n] = c]
    BY <1>4
  <2>2. c \in CacheViews /\ c \in Content
    BY <1>2, <2>1, EdgeFacts, RoundTyped
  <2>3. PICK r \in Rounds : /\ round' = [round EXCEPT ![n] = r] /\ r.at = "idle" /\ r.results = {}
                            /\ r.done = {} /\ r.before = {}
    BY <1>2, <1>4, IdleFailed
  <2>4. RunsFit(n, disk[n], r, beat[n]) /\ LastFit(n, disk[n], r)
    BY <2>3, IdleFits
  <2>5. r.results \union disk[n].pending \union beat[n].results \subseteq AllResults(n)
    BY <2>3 DEF AllResults
  <2>6. disk' = [disk EXCEPT ![n] = disk[n]] /\ beat' = [beat EXCEPT ![n] = beat[n]]
    BY <1>1, <1>4, EdgesStay
  <2>7. used' \in [edits : Nat, runs : 0..MaxRuns, faults : Nat] /\ used'.runs = used.runs
    BY <1>4, CountersStay
  <2>8. r.before \subseteq round[n].before
    BY <2>3
  <2>9. /\ disk[n].applied <= disk[n].applied /\ disk[n].applied <= staged[n].version
        /\ beat[n].at # "none" => /\ heard[n].version <= beat[n].version
                                  /\ beat[n].version <= disk[n].applied
    BY <1>2, EdgeFacts
  <2> QED
    BY <1>1, <2>1, <2>2, <2>3, <2>4, <2>5, <2>6, <2>7, <2>8, <2>9, EdgesStay, EdgeKeeps
<1> QED
  BY <1>3, <1>4 DEF PersistState

LEMMA KillAgentKeeps ==
  ASSUME CacheInv, NEW n \in Edges, KillAgent(n) PROVE CacheInv'
<1>1. /\ UNCHANGED <<site, publication, staged, ops, underway, lastTask, heard, running, disk,
                     cached, retired, lastRun>>
      /\ Fault /\ round' = [round EXCEPT ![n] = Idle] /\ beat' = [beat EXCEPT ![n] = NoBeat]
  BY DEF KillAgent
<1>2. PICK r \in Rounds : /\ round' = [round EXCEPT ![n] = r] /\ r.at = "idle" /\ r.results = {}
                          /\ r.done = {} /\ r.before = {}
  BY <1>1, IdleTyped
<1>3. PICK b \in Beats : /\ beat' = [beat EXCEPT ![n] = b] /\ b.at = "none" /\ b.results = {}
  BY <1>1, NoBeatTyped
<1>4. RunsFit(n, disk[n], r, b) /\ LastFit(n, disk[n], r)
  BY <1>2, <1>3, IdleFits
<1>5. r.results \union disk[n].pending \union b.results \subseteq AllResults(n)
  BY <1>2, <1>3 DEF AllResults
<1>6. disk' = [disk EXCEPT ![n] = disk[n]] /\ running' = [running EXCEPT ![n] = running[n]]
  BY <1>1, EdgesStay
<1>7. used' \in [edits : Nat, runs : 0..MaxRuns, faults : Nat] /\ used'.runs = used.runs
  BY <1>1, CountersStay
<1>8. r.before \subseteq round[n].before
  BY <1>2
<1>9. disk[n].applied <= disk[n].applied /\ disk[n].applied <= staged[n].version
  BY EdgeFacts, DiskTyped
<1> QED
  BY <1>1, <1>2, <1>3, <1>4, <1>5, <1>6, <1>7, <1>8, <1>9, EdgesStay, EdgeKeeps

\* A step that changes the heartbeat alone.
LEMMA BeatKeeps ==
  ASSUME CacheInv, NEW n \in Edges, NEW b \in Beats, beat' = [beat EXCEPT ![n] = b],
         UNCHANGED <<site, publication, staged, ops, underway, lastTask, heard, running, disk, round,
                     cached, retired, lastRun>>,
         Fault \/ UNCHANGED used, b.results \subseteq disk[n].pending,
         b.at # "none" => b.at = "sent" /\ b.version = disk[n].applied
  PROVE  CacheInv'
<1>1. /\ disk' = [disk EXCEPT ![n] = disk[n]] /\ running' = [running EXCEPT ![n] = running[n]]
      /\ round' = [round EXCEPT ![n] = round[n]]
  BY EdgesStay
<1>2. used' \in [edits : Nat, runs : 0..MaxRuns, faults : Nat] /\ used'.runs = used.runs
  BY CountersStay
<1>3. /\ disk[n].applied <= disk[n].applied /\ disk[n].applied <= staged[n].version
      /\ b.at # "none" => heard[n].version <= b.version /\ b.version <= disk[n].applied
  BY EdgeFacts, DiskTyped
<1>4. round[n].results \union disk[n].pending \union b.results \subseteq AllResults(n)
  BY DEF AllResults
<1>5. b.at = "none" \/ b.at = "sent"
  BY BeatTyped
<1>6. RunsFit(n, disk[n], round[n], b)
  <2>1. RunsFit(n, disk[n], round[n], beat[n])
    BY RunsFitNow
  <2>2. \A p \in disk[n].pending : p.run \in Nat
    BY RunsFitNow DEF AllResults
  <2>3. OneEach(b.results)
    BY <2>1 DEF RunsFit, OneEach
  <2>4. \A p \in b.results : \A q \in disk[n].pending : q.job = p.job => p.run <= q.run
    BY <2>1, <2>2 DEF RunsFit, OneEach
  <2> QED
    BY <1>5, <2>1, <2>3, <2>4 DEF RunsFit
<1>7. LastFit(n, disk[n], round[n])
  BY RunsFitNow
<1>8. round[n].at # "idle" => disk[n].applied < round[n].version
  BY EdgeFacts
<1> QED
  BY <1>1, <1>2, <1>3, <1>4, <1>6, <1>7, <1>8, EdgesStay, EdgeKeeps

LEMMA SendBeatKeeps ==
  ASSUME CacheInv, NEW n \in Edges, SendBeat(n) PROVE CacheInv'
<1> DEFINE b == [at |-> "sent", version |-> disk[n].applied, failed |-> round[n].failed,
                 results |-> disk[n].pending]
<1>1. /\ disk[n].applied \in Nat /\ round[n].failed \in Nat /\ disk[n].pending \in SUBSET Results
  BY EdgeFacts, DiskTyped, RoundTyped
<1>2. b \in Beats /\ b.at = "sent" /\ b.version = disk[n].applied /\ b.results = disk[n].pending
  BY <1>1 DEF Beats
<1>3. /\ beat' = [beat EXCEPT ![n] = b]
      /\ UNCHANGED <<site, publication, staged, ops, underway, lastTask, heard, running, disk, round,
                     cached, retired, lastRun, used>>
  BY DEF SendBeat
<1> HIDE DEF b
<1> QED
  BY <1>2, <1>3, BeatKeeps

LEMMA LoseBeatKeeps ==
  ASSUME CacheInv, NEW n \in Edges, LoseBeat(n) PROVE CacheInv'
<1>1. /\ beat' = [beat EXCEPT ![n] = NoBeat] /\ Fault
      /\ UNCHANGED <<site, publication, staged, ops, underway, lastTask, heard, running, disk, round,
                     cached, retired, lastRun>>
  BY DEF LoseBeat
<1>2. NoBeat \in Beats /\ NoBeat.at = "none" /\ NoBeat.results \subseteq disk[n].pending
  BY NoBeatTyped
<1> QED
  BY <1>1, <1>2, BeatKeeps

LEMMA AcknowledgeBeatKeeps ==
  ASSUME CacheInv, NEW n \in Edges, AcknowledgeBeat(n) PROVE CacheInv'
<1>1. /\ UNCHANGED <<site, publication, staged, ops, underway, lastTask, heard, running, cached,
                     retired, lastRun, used>>
      /\ beat' = [beat EXCEPT ![n] = NoBeat] /\ beat[n].at = "handled"
  BY DEF AcknowledgeBeat
<1>2. PICK P \in SUBSET Results : P = {p \in disk[n].pending : p \notin beat[n].results}
  BY EdgeFacts, DiskTyped
<1>3. PICK d \in Disks : /\ disk' = [disk EXCEPT ![n] = d] /\ d.pending = P
                         /\ d.completed = disk[n].completed /\ d.applied = disk[n].applied
  <2> DEFINE x == DiskAs(disk[n], disk[n].applied, disk[n].completed, P)
  <2>1. [disk[n] EXCEPT !.pending = P] = x
    BY EdgeFacts DEF DiskAs, Disks
  <2>2. /\ disk[n].applied \in Nat /\ disk[n].completed \in SUBSET OperationIds /\ disk[n] \in Disks
    BY EdgeFacts, DiskTyped
  <2>3. /\ x \in Disks /\ x.pending = P /\ x.completed = disk[n].completed
        /\ x.applied = disk[n].applied
    BY <2>2, DiskWith
  <2>4. disk' = [disk EXCEPT ![n] = [disk[n] EXCEPT !.pending = P]]
    BY <1>2 DEF AcknowledgeBeat, Unacknowledged
  <2> QED
    BY <2>1, <2>3, <2>4
<1>4. PICK r \in Rounds : /\ round' = [round EXCEPT ![n] = r] /\ r.at = round[n].at
                          /\ r.done = round[n].done /\ r.results = round[n].results
                          /\ r.list = round[n].list /\ r.version = round[n].version
                          /\ r.before = round[n].before
  <2>1. PICK f \in Nat : round' = [round EXCEPT ![n] = [round[n] EXCEPT !.failed = f]]
    <3>1. round[n].failed \in Nat
      BY EdgeFacts, RoundTyped
    <3> QED
      BY <3>1 DEF AcknowledgeBeat
  <2> DEFINE x == RoundAs(round[n], round[n].at, round[n].done, round[n].results, f)
  <2>2. [round[n] EXCEPT !.failed = f] = x
    BY EdgeFacts DEF RoundAs, Rounds
  <2>3. /\ round[n] \in Rounds /\ round[n].at \in {"idle", "run", "save", "persist"}
        /\ round[n].done \in SUBSET OperationIds /\ round[n].results \in SUBSET Results
    BY EdgeFacts, RoundTyped
  <2>4. /\ x \in Rounds /\ x.at = round[n].at /\ x.done = round[n].done
        /\ x.results = round[n].results /\ x.list = round[n].list
        /\ x.version = round[n].version /\ x.before = round[n].before
    BY <2>3, RoundWith
  <2> QED
    BY <2>1, <2>2, <2>4
<1>5. PICK b \in Beats : /\ beat' = [beat EXCEPT ![n] = b] /\ b.at = "none" /\ b.results = {}
  BY <1>1, NoBeatTyped
<1>6. RunsFit(n, disk[n], round[n], beat[n]) /\ LastFit(n, disk[n], round[n])
  BY RunsFitNow
<1>7. RunsFit(n, d, r, b)
  BY <1>2, <1>3, <1>4, <1>5, <1>6 DEF RunsFit, OneEach
<1>8. LastFit(n, d, r)
  <2>1. ASSUME NEW job, KeptBy(n, disk[n], job) PROVE KeptBy(n, d, job)
    <3> SUFFICES ASSUME NEW p \in disk[n].pending, p.job = job, p.run = lastRun[n][job]
                 PROVE  KeptBy(n, d, job)
      BY <2>1 DEF KeptBy
    <3>1. CASE p \in beat[n].results
      BY <1>1, <1>6, <3>1 DEF RunsFit, KeptBy
    <3>2. CASE p \notin beat[n].results
      BY <1>2, <1>3, <3>2 DEF KeptBy
    <3> QED
      BY <3>1, <3>2
  <2> QED
    BY <1>3, <1>4, <1>6, <2>1 DEF LastFit
<1>9. r.results \union d.pending \union b.results \subseteq AllResults(n)
  BY <1>2, <1>3, <1>4, <1>5 DEF AllResults
<1>10. running' = [running EXCEPT ![n] = running[n]]
  BY <1>1, EdgesStay
<1>11. used' \in [edits : Nat, runs : 0..MaxRuns, faults : Nat] /\ used'.runs = used.runs
  BY <1>1, CountersStay
<1>12. /\ disk[n].applied <= d.applied /\ d.applied <= staged[n].version
       /\ r.before \subseteq round[n].before /\ (r.at # "idle" => d.applied < r.version)
  BY <1>3, <1>4, EdgeFacts, DiskTyped
<1>13. /\ r.at # "idle" => /\ round[n].at # "idle" /\ r.list = round[n].list
                            /\ r.version = round[n].version
       /\ b.at # "none" => heard[n].version <= b.version /\ b.version <= d.applied
  BY <1>4, <1>5
<1> QED
  BY <1>1, <1>3, <1>4, <1>5, <1>7, <1>8, <1>9, <1>10, <1>11, <1>12, <1>13, EdgesStay, EdgeKeeps

\* What a heartbeat makes of a row.
LEMMA RowAfterBeat ==
  ASSUME CacheInv, NEW n \in Edges, NEW o \in DOMAIN ops
  PROVE  LET row == ops[o].rows[n]
             new == AfterBeat(o, n)
         IN  /\ new \in Row /\ new.target = row.target
             /\ row.conf = "succeeded" => new.conf = "succeeded"
             /\ new.conf = "succeeded" => row.conf = "succeeded" \/ beat[n].version >= row.target
             /\ \/ /\ new.warm = row.warm /\ new.run = row.run
                   /\ \A r \in beat[n].results : r.job # o
                \/ \E r \in beat[n].results : r.job = o /\ new.warm = r.status /\ new.run = r.run
<1> DEFINE row == ops[o].rows[n]
           sent == {r \in beat[n].results : r.job = o}
           waiting == o = lastTask /\ row.conf = "pending"
           reached == beat[n].version >= row.target
           conf == CASE waiting /\ reached -> "succeeded"
                     [] waiting /\ ~reached /\ beat[n].failed = row.target -> "failed"
                     [] OTHER -> row.conf
           at == CHOOSE r \in sent : TRUE
           new == AfterBeat(o, n)
<1>1. row \in Row
  BY RowTyped DEF CacheInv
<1>2. new = IF sent = {} THEN [row EXCEPT !.conf = conf]
            ELSE [row EXCEPT !.conf = conf, !.warm = at.status, !.run = at.run]
  BY DEF AfterBeat
<1>3. sent # {} => at \in sent
  OBVIOUS
<1>4. /\ conf \in {"not_targeted", "pending", "succeeded", "failed", "timed_out"}
      /\ row.conf = "succeeded" => conf = "succeeded"
      /\ conf = "succeeded" => row.conf = "succeeded" \/ beat[n].version >= row.target
  <2>1. row.conf \in {"not_targeted", "pending", "succeeded", "failed", "timed_out"}
    BY <1>1 DEF Row
  <2> DEFINE missed == beat[n].failed = row.target
  <2>2. conf = CASE waiting /\ reached -> "succeeded"
                 [] waiting /\ ~reached /\ missed -> "failed"
                 [] OTHER -> row.conf
    OBVIOUS
  <2>3. waiting => row.conf = "pending"
    OBVIOUS
  <2> HIDE DEF row, conf, waiting, reached, missed
  <2>4. /\ conf \in {row.conf, "succeeded", "failed"} /\ (row.conf # "pending" => conf = row.conf)
        /\ conf = "succeeded" => row.conf = "succeeded" \/ reached
    BY <2>2, <2>3
  <2> QED
    BY <2>1, <2>4 DEF reached
<1>5. \A r \in sent : r \in beat[n].results /\ r.job = o /\ r.status \in Reported /\ r.run \in 0..MaxRuns
  BY EdgeFacts, BeatTyped, ResultTyped
<1>6. sent = {} => \A r \in beat[n].results : r.job # o
  OBVIOUS
<1> HIDE DEF row, sent, conf, at, new
<1>7. CASE sent = {}
  BY <1>1, <1>2, <1>4, <1>6, <1>7 DEF Row, row, new
<1>8. CASE sent # {}
  <2>1. /\ at \in beat[n].results /\ at.job = o /\ at.status \in Reported /\ at.run \in 0..MaxRuns
    BY <1>3, <1>5, <1>8
  <2>2. /\ new \in Row /\ new.target = row.target /\ new.conf = conf /\ new.warm = at.status
        /\ new.run = at.run
    BY <1>1, <1>2, <1>4, <1>8, <2>1 DEF Row
  <2> QED
    BY <1>4, <2>1, <2>2 DEF row, new
<1> QED
  BY <1>7, <1>8

LEMMA OperationsAfterBeat ==
  ASSUME CacheInv, NEW n \in Edges, HandleBeat(n)
  PROVE  /\ ops' \in Seq(Operations) /\ Len(ops') = Len(ops) /\ DOMAIN ops' = DOMAIN ops
         /\ \A o \in DOMAIN ops :
              /\ ops'[o].task = ops[o].task /\ ops'[o].attached = ops[o].attached
              /\ ops'[o].paths = ops[o].paths /\ ops'[o].epoch = ops[o].epoch
              /\ ops'[o].rows[n] = AfterBeat(o, n)
              /\ \A m \in Edges : m # n => ops'[o].rows[m] = ops[o].rows[m]
<1>1. ops' = [o \in DOMAIN ops |-> [ops[o] EXCEPT !.rows[n] = AfterBeat(o, n)]]
  BY DEF HandleBeat
<1>2. DOMAIN ops = 1..Len(ops) /\ Len(ops) \in Nat
  BY OpsDomain DEF CacheInv
<1>3. ASSUME NEW o \in DOMAIN ops
      PROVE  /\ ops'[o] \in Operations
             /\ ops'[o].task = ops[o].task /\ ops'[o].attached = ops[o].attached
             /\ ops'[o].paths = ops[o].paths /\ ops'[o].epoch = ops[o].epoch
             /\ ops'[o].rows[n] = AfterBeat(o, n)
             /\ \A m \in Edges : m # n => ops'[o].rows[m] = ops[o].rows[m]
  <2>1. PICK new \in Row : new = AfterBeat(o, n)
    BY RowAfterBeat
  <2>2. /\ ops[o] \in Operations /\ ops[o].failed \in BOOLEAN /\ ops[o].task \in TaskStates
        /\ ops[o].attached \in BOOLEAN /\ ops[o].overdue \in BOOLEAN
        /\ ops[o].rows \in [Edges -> Row]
    BY RowsTyped
  <2> DEFINE rows == [ops[o].rows EXCEPT ![n] = new]
             op == OpAs(ops[o], ops[o].failed, ops[o].task, ops[o].attached, ops[o].overdue, rows)
  <2>3. rows \in [Edges -> Row] /\ rows[n] = new
        /\ \A m \in Edges : m # n => rows[m] = ops[o].rows[m]
    BY <2>2
  <2>4. ops'[o] = [ops[o] EXCEPT !.rows[n] = new]
    BY <1>1, <2>1
  <2>5. [ops[o] EXCEPT !.rows[n] = new] = op
    BY <2>2 DEF OpAs, Operations
  <2> HIDE DEF rows
  <2>6. /\ op \in Operations /\ op.task = ops[o].task /\ op.attached = ops[o].attached
        /\ op.rows = rows /\ op.paths = ops[o].paths /\ op.epoch = ops[o].epoch
    BY <2>2, <2>3, OperationWith
  <2> HIDE DEF op
  <2> QED
    BY <2>1, <2>3, <2>4, <2>5, <2>6
<1>4. ops' \in [1..Len(ops) -> Operations]
  BY <1>1, <1>2, <1>3
<1>5. ops' \in Seq(Operations)
  BY <1>2, <1>4, SeqDef
<1>6. Len(ops') = Len(ops) /\ DOMAIN ops' = DOMAIN ops
  <2>1. DOMAIN ops' = 1..Len(ops') /\ Len(ops') \in Nat
    BY <1>5, LenProperties
  <2> QED
    BY <1>2, <1>4, <2>1
<1> QED
  BY <1>3, <1>5, <1>6

LEMMA HandleBeatKeeps ==
  ASSUME CacheInv, NEW n \in Edges, HandleBeat(n) PROVE CacheInv'
<1> USE DEF CacheInv
<1>1. /\ heard' = [heard EXCEPT ![n] = [capable |-> TRUE, version |-> beat[n].version]]
      /\ beat' = [beat EXCEPT ![n].at = "handled"] /\ beat[n].at = "sent"
      /\ UNCHANGED <<site, publication, staged, underway, lastTask, running, disk, round, cached,
                     retired, lastRun, used>>
  BY DEF HandleBeat
<1>2. /\ ops' \in Seq(Operations) /\ Len(ops') = Len(ops) /\ DOMAIN ops' = DOMAIN ops
      /\ \A o \in DOMAIN ops :
           /\ ops'[o].task = ops[o].task /\ ops'[o].attached = ops[o].attached
           /\ ops'[o].paths = ops[o].paths /\ ops'[o].epoch = ops[o].epoch
           /\ ops'[o].rows[n] = AfterBeat(o, n)
           /\ \A m \in Edges : m # n => ops'[o].rows[m] = ops[o].rows[m]
  BY OperationsAfterBeat
<1>3. /\ heard' \in [Edges -> [capable : BOOLEAN, version : Nat]]
      /\ heard'[n].version = beat[n].version
      /\ \A m \in Edges : m # n => heard'[m] = heard[m]
  <2>1. beat[n].version \in Nat /\ heard \in [Edges -> [capable : BOOLEAN, version : Nat]]
    BY EdgeFacts, BeatTyped DEF CacheShapes
  <2> QED
    BY <1>1, <2>1
<1>4. /\ beat' \in [Edges -> Beats] /\ beat'[n].at = "handled" /\ beat'[n].version = beat[n].version
      /\ beat'[n].results = beat[n].results /\ \A m \in Edges : m # n => beat'[m] = beat[m]
  <2> DEFINE R == SUBSET Results
  <2>1. beat \in [Edges -> [at : {"none", "sent", "handled"}, version : Nat, failed : Nat, results : R]]
    BY DEF CacheShapes, Beats
  <2> HIDE DEF R
  <2>2. beat' \in [Edges -> [at : {"none", "sent", "handled"}, version : Nat, failed : Nat, results : R]]
    BY <1>1, <2>1
  <2>3. beat' \in [Edges -> Beats]
    BY <2>2 DEF Beats, R
  <2> QED
    BY <1>1, <2>1, <2>3
<1>5. CacheShapes'
  BY <1>1, <1>2, <1>3, <1>4 DEF CacheShapes
<1>6. OpsGrow
  BY <1>2 DEF OpsGrow
<1>7. SiteSound' /\ KeysGoUp' /\ KeysAgree' /\ JobsFollow'
  BY <1>1, <1>6, KeysStay, JobsStay DEF SiteSound
<1>8. VersionsRise'
  BY <1>1, <1>3, <1>4 DEF VersionsRise
<1>9. ASSUME NEW o \in DOMAIN ops
      PROVE  LET row == ops[o].rows[n]
                 new == ops'[o].rows[n]
             IN  /\ new \in Row /\ new.target = row.target
                 /\ row.conf = "succeeded" => new.conf = "succeeded"
                 /\ new.conf = "succeeded" => row.conf = "succeeded" \/ beat[n].version >= row.target
                 /\ \/ /\ new.warm = row.warm /\ new.run = row.run
                       /\ \A r \in beat[n].results : r.job # o
                    \/ \E r \in beat[n].results : r.job = o /\ new.warm = r.status /\ new.run = r.run
  BY <1>2, RowAfterBeat
<1>10. heard[n].version <= beat[n].version /\ heard[n].version \in Nat /\ beat[n].version \in Nat
  BY <1>1, EdgeFacts, EdgeTyped, BeatTyped
<1>11. \A r \in beat[n].results : r.status \in Reported
  BY EdgeFacts, BeatTyped, ResultTyped
<1>12. RowsSound'
  <2> SUFFICES ASSUME NEW o \in DOMAIN ops
               PROVE  /\ ops'[o].attached => ops'[o].task # "none"
                      /\ ops'[o].task = "succeeded" =>
                           \A m \in Edges : ops'[o].rows[m].conf = "succeeded"
                      /\ \A m \in Edges :
                           /\ ops'[o].rows[m].conf = "succeeded" =>
                                heard'[m].version >= ops'[o].rows[m].target
                           /\ ops'[o].rows[m].warm = "not_requested" => ops'[o].paths = {}
    BY <1>2 DEF RowsSound
  <2>1. /\ ops[o].attached => ops[o].task # "none"
        /\ ops[o].task = "succeeded" => \A m \in Edges : ops[o].rows[m].conf = "succeeded"
        /\ \A m \in Edges :
             /\ ops[o].rows[m].conf = "succeeded" => heard[m].version >= ops[o].rows[m].target
             /\ ops[o].rows[m].warm = "not_requested" => ops[o].paths = {}
    BY DEF RowsSound
  <2>2. ops'[o].rows[n].conf = "succeeded" => heard'[n].version >= ops'[o].rows[n].target
    <3>1. ops[o].rows[n].target \in Nat
      BY RowTyped
    <3> QED
      BY <1>3, <1>9, <1>10, <2>1, <3>1
  <2>3. ops'[o].rows[n].warm = "not_requested" => ops'[o].paths = {}
    BY <1>2, <1>9, <1>11, <2>1 DEF Reported
  <2>4. ops'[o].task = "succeeded" => ops'[o].rows[n].conf = "succeeded"
    BY <1>2, <1>9, <2>1
  <2>5. ASSUME NEW m \in Edges
        PROVE  /\ ops'[o].task = "succeeded" => ops'[o].rows[m].conf = "succeeded"
               /\ ops'[o].rows[m].conf = "succeeded" =>
                    heard'[m].version >= ops'[o].rows[m].target
               /\ ops'[o].rows[m].warm = "not_requested" => ops'[o].paths = {}
    <3>1. CASE m = n
      BY <2>2, <2>3, <2>4, <3>1
    <3>2. CASE m # n
      <4>1. ops'[o].rows[m] = ops[o].rows[m] /\ heard'[m] = heard[m]
        BY <1>2, <1>3, <3>2
      <4> QED
        BY <1>2, <2>1, <4>1
    <3> QED
      BY <3>1, <3>2
  <2>6. ops'[o].attached => ops'[o].task # "none"
    BY <1>2, <2>1
  <2> QED
    BY <2>5, <2>6
<1>13. WarmSound'
  <2>1. \A m \in Edges : \A r \in AllResults(m)' : r \in AllResults(m)
    BY <1>1, <1>4 DEF AllResults
  <2>2. ASSUME NEW m \in Edges, NEW o \in DOMAIN ops', ops'[o].rows[m].warm = "succeeded"
        PROVE  \/ o \in DOMAIN ops /\ ops[o].rows[m].warm = "succeeded"
               \/ \E r \in AllResults(m) : r.job = o /\ r.status = "succeeded"
    <3>1. CASE m # n
      BY <1>2, <2>2, <3>1
    <3>2. CASE m = n
      BY <1>2, <1>9, <2>2, <3>2 DEF AllResults
    <3> QED
      BY <3>1, <3>2
  <2>3. \A m \in Edges : cached[m] \subseteq cached'[m]
    BY <1>1
  <2> QED
    BY <1>6, <2>1, <2>2, <2>3, WarmMoves
<1>14. ASSUME NEW m \in Edges, m # n PROVE RunsOrdered(m)' /\ LastRunsKept(m)'
  <2>1. \A o \in DOMAIN ops : ops'[o].rows[m].run = ops[o].rows[m].run
    BY <1>2, <1>14
  <2>2. /\ disk'[m] = disk[m] /\ beat'[m] = beat[m] /\ lastRun'[m] = lastRun[m]
        /\ round'[m] = round[m] /\ used'.runs >= used.runs
    BY <1>1, <1>4, <1>14, EdgeFacts
  <2>3. \A o \in DOMAIN ops' \ DOMAIN ops : ops'[o].rows[m].run = 0
    BY <1>2
  <2>4. RunsOrdered(m) /\ LastRunsKept(m)
    BY DEF RunsKept
  <2> QED
    BY <1>5, <1>6, <2>1, <2>2, <2>3, <2>4, RunsStay
<1>15. RunsFit(n, disk[n], round[n], beat[n])
  BY RunsFitNow
<1>16. \A p \in AllResults(n) : p.job \in DOMAIN ops /\ p.run \in Nat
  BY RunsFitNow
<1>17. \A o \in DOMAIN ops : /\ ops[o].rows[n].run \in Nat /\ lastRun[n][o] \in Nat
                             /\ ops[o].rows[n].run <= lastRun[n][o]
  BY RowTyped, EdgeTyped, OpsDomain, RunsFitNow, CacheConstants
<1>18. RunsOrdered(n)'
  <2>1. \A o \in DOMAIN ops' : ops'[o].rows[n].run <= lastRun'[n][o]
    BY <1>1, <1>2, <1>9, <1>15, <1>17 DEF RunsFit
  <2>2. \A p \in disk'[n].pending :
          ops'[p.job].rows[n].run <= p.run /\ p.run <= lastRun'[n][p.job]
    <3> SUFFICES ASSUME NEW p \in disk[n].pending
                 PROVE  ops'[p.job].rows[n].run <= p.run /\ p.run <= lastRun[n][p.job]
      BY <1>1
    <3>1. p.job \in DOMAIN ops
      BY <1>16 DEF AllResults
    <3> QED
      BY <1>9, <1>15, <3>1 DEF RunsFit
  <2>3. \A p \in beat'[n].results :
          /\ p.run <= lastRun'[n][p.job]
          /\ ops'[p.job].rows[n].run = p.run
          /\ \A q \in disk'[n].pending : q.job = p.job => p.run <= q.run
    <3> SUFFICES ASSUME NEW p \in beat[n].results
                 PROVE  /\ p.run <= lastRun[n][p.job] /\ ops'[p.job].rows[n].run = p.run
                        /\ \A q \in disk[n].pending : q.job = p.job => p.run <= q.run
      BY <1>1, <1>4
    <3>1. p.job \in DOMAIN ops
      BY <1>16 DEF AllResults
    <3>2. \A r \in beat[n].results : r.job = p.job => r = p
      BY <1>15 DEF RunsFit, OneEach
    <3>3. ops'[p.job].rows[n].run = p.run
      BY <1>9, <3>1, <3>2
    <3> QED
      BY <1>15, <3>3 DEF RunsFit
  <2>4. /\ OneEach(round'[n].results) /\ OneEach(disk'[n].pending) /\ OneEach(beat'[n].results)
        /\ \A p \in round'[n].results : p.run = lastRun'[n][p.job]
        /\ \A job \in OperationIds : lastRun'[n][job] <= used'.runs
    BY <1>1, <1>4, <1>15, RunsFitNow DEF RunsFit
  <2> QED
    BY <1>4, <2>1, <2>2, <2>3, <2>4 DEF RunsOrdered
<1>19. LastRunsKept(n)'
  <2>1. ASSUME NEW o \in DOMAIN ops, Kept(n, o) PROVE Kept(n, o)'
    <3> SUFFICES ASSUME ops[o].rows[n].run = lastRun[n][o]
                 PROVE  ops'[o].rows[n].run = lastRun[n][o]
      BY <1>1, <2>1 DEF Kept
    <3>1. CASE ops'[o].rows[n].run = ops[o].rows[n].run
      BY <3>1
    <3>2. CASE \E r \in beat[n].results : r.job = o /\ ops'[o].rows[n].run = r.run
      <4>1. PICK r \in beat[n].results : r.job = o /\ ops'[o].rows[n].run = r.run
        BY <3>2
      <4>2. r.run \in Nat /\ ops[o].rows[n].run <= r.run /\ r.run <= lastRun[n][o]
        BY <1>1, <1>15, <1>16, <4>1 DEF RunsFit, AllResults
      <4> QED
        BY <1>17, <4>1, <4>2
    <3> QED
      BY <1>9, <3>1, <3>2
  <2>2. LastRunsKept(n)
    BY DEF RunsKept
  <2> QED
    BY <1>1, <1>2, <2>1, <2>2 DEF LastRunsKept
<1>20. RunsKept'
  BY <1>14, <1>18, <1>19 DEF RunsKept
<1> QED
  BY <1>5, <1>7, <1>8, <1>12, <1>13, <1>20

-------------------------------------------------------------------------------
(* All steps *)

LEMMA CacheStarts == ASSUME CacheInit PROVE CacheInv
<1>1. /\ site = FirstSite /\ publication = FirstSite
      /\ staged = [n \in Edges |-> [content |-> FirstContent, jobs |-> <<>>, version |-> 1]]
      /\ running = [n \in Edges |-> FirstContent]
      /\ ops = <<>> /\ underway = 0 /\ lastTask = 0
      /\ heard \in [Edges -> [capable : BOOLEAN, version : {1}]]
      /\ disk = [n \in Edges |-> [applied |-> 1, completed |-> {}, pending |-> {}]]
      /\ round = [n \in Edges |-> Idle] /\ beat = [n \in Edges |-> NoBeat]
      /\ cached = [n \in Edges |-> {}] /\ retired = {}
      /\ lastRun = [n \in Edges |-> [job \in OperationIds |-> 0]]
      /\ used = [edits |-> 0, runs |-> 0, faults |-> 0]
  BY DEF CacheInit, OperationIds
<1>2. <<>> \in Seq(OperationIds) /\ ops \in Seq(Operations) /\ Len(<<>>) = 0 /\ DOMAIN <<>> = {}
  BY <1>1, EmptySeq
<1>3. /\ FirstSite.rules = {} /\ FirstSite.jobs = <<>> /\ FirstSite.version = 1
      /\ FirstSite.generation = 1 /\ FirstContent.generation = 1 /\ FirstContent.rules = {}
      /\ FirstContent.epoch = FirstSite.epoch /\ FirstSite.epoch \in Epochs
  BY DEF FirstSite, FirstContent, Epochs
<1>4. FirstSite \in Sites
  <2> DEFINE S == Seq(OperationIds)
             C == SUBSET CacheRule
  <2>1. Sites = [generation : Nat \ {0}, rules : C, jobs : S, version : Nat,
                 caching : BOOLEAN, enabled : BOOLEAN, epoch : Epochs]
    BY DEF Sites
  <2>2. <<>> \in S /\ {} \in C /\ [u \in Urls |-> 0] \in Epochs
    BY <1>2 DEF Epochs
  <2> HIDE DEF S, C
  <2> QED
    BY <2>1, <2>2 DEF FirstSite
<1>5. FirstContent \in Content
  <2> DEFINE C == SUBSET CacheRule
  <2>1. Content = [generation : Nat, rules : C, epoch : Epochs, serving : BOOLEAN]
    BY DEF Content, Epochs
  <2>2. {} \in C
    OBVIOUS
  <2> HIDE DEF C
  <2> QED
    BY <1>3, <2>1, <2>2 DEF FirstContent
<1>6. CacheShapes
  <2>1. \A n \in Edges : round[n] = Idle /\ beat[n] = NoBeat
    BY <1>1
  <2>2. round \in [Edges -> Rounds] /\ beat \in [Edges -> Beats]
    BY <1>1, IdleTyped, NoBeatTyped
  <2>3. staged \in [Edges -> [content : Content, jobs : Seq(OperationIds), version : Nat]]
    <3> DEFINE S == Seq(OperationIds)
    <3>1. <<>> \in S
      BY <1>2
    <3> HIDE DEF S
    <3>2. staged \in [Edges -> [content : Content, jobs : S, version : Nat]]
      BY <1>1, <1>5, <3>1
    <3> QED
      BY <3>2 DEF S
  <2>4. disk \in [Edges -> Disks]
    BY <1>1 DEF Disks
  <2>5. /\ cached \in [Edges -> SUBSET [url : Urls, key : Keys, epoch : Nat]]
        /\ running \in [Edges -> Content]
        /\ heard \in [Edges -> [capable : BOOLEAN, version : Nat]]
        /\ retired \subseteq Urls \X Keys
    <3>1. running \in [Edges -> Content]
      BY <1>1, <1>5
    <3>2. heard \in [Edges -> [capable : BOOLEAN, version : Nat]]
      BY <1>1
    <3>3. cached \in [Edges -> SUBSET [url : Urls, key : Keys, epoch : Nat]]
      BY <1>1
    <3> QED
      BY <1>1, <3>1, <3>2, <3>3
  <2>6. /\ lastRun \in [Edges -> [OperationIds -> 0..MaxRuns]]
        /\ used \in [edits : Nat, runs : 0..MaxRuns, faults : Nat]
    <3>1. 0 \in 0..MaxRuns
      BY CacheConstants
    <3> QED
      BY <1>1, <3>1
  <2>7. ops \in Seq(Operations) /\ Len(ops) <= MaxOperations
        /\ underway \in 0..Len(ops) /\ lastTask \in 0..Len(ops)
    BY <1>1, <1>2, CacheConstants
  <2> QED
    BY <1>1, <1>4, <2>2, <2>3, <2>4, <2>5, <2>6, <2>7 DEF CacheShapes, Disks
<1>7. SiteSound
  <2>1. IsFiniteSet({}) /\ Cardinality({}) = 0
    BY FS_EmptySet
  <2>2. MaxRules \in Nat /\ MaxJobs \in Nat /\ Len(FirstSite.jobs) = 0
    BY <1>2, <1>3, CacheConstants
  <2>3. Cardinality(FirstSite.rules) <= MaxRules /\ Len(FirstSite.jobs) <= MaxJobs
    BY <1>3, <2>1, <2>2
  <2> QED
    BY <1>1, <1>3, <2>1, <2>3 DEF SiteSound
<1>8. \A s \in CacheViews : s = FirstSite \/ s = FirstContent
  BY <1>1, IdleTyped DEF CacheViews
<1>9. \A s, t \in CacheViews : \A u \in Urls :
        KeyOf(s, u) = KeyOf(t, u) /\ s.epoch[u] = t.epoch[u]
  <2>1. \A u \in Urls : KeyOf(FirstSite, u) = KeyOf(FirstContent, u)
    BY <1>3, SameKey
  <2> QED
    BY <1>3, <1>8, <2>1
<1>10. \A s \in CacheViews : ViewSound(s)
  BY <1>3, <1>8 DEF ViewSound, HasLastRule
<1>11. KeysGoUp /\ KeysAgree
  <2>1. site \in CacheViews /\ retired = {} /\ \A n \in Edges : cached[n] = {}
    BY <1>1 DEF CacheViews
  <2> QED
    BY <1>9, <1>10, <2>1 DEF KeysGoUp, KeysAgree
<1>12. JobsFollow
  BY <1>1, <1>2, <1>3, IdleTyped DEF JobsFollow, JobsWithin
<1>13. VersionsRise
  BY <1>1, IdleTyped, NoBeatTyped DEF VersionsRise
<1>14. \A n \in Edges : /\ round[n].results = {} /\ disk[n].pending = {} /\ beat[n].results = {}
                        /\ round[n].done = {} /\ disk[n].completed = {} /\ round[n].at = "idle"
  BY <1>1, IdleTyped, NoBeatTyped
<1>15. DOMAIN ops = {}
  BY <1>1, <1>2
<1>16. RowsSound /\ WarmSound
  BY <1>14, <1>15 DEF RowsSound, WarmSound, AllResults
<1>17. RunsKept
  <2>1. \A n \in Edges : \A job \in OperationIds : lastRun[n][job] <= used.runs
    BY <1>1
  <2> QED
    BY <1>14, <1>15, <2>1 DEF RunsKept, RunsOrdered, LastRunsKept, OneEach
<1> QED
  BY <1>6, <1>7, <1>11, <1>12, <1>13, <1>16, <1>17 DEF CacheInv

LEMMA CacheSteps == ASSUME CacheInv, [CacheNext]_cacheVars PROVE CacheInv'
<1>1. CASE UNCHANGED cacheVars
  <2>1. UNCHANGED <<site, publication, staged, ops, underway, lastTask, heard, running, disk, round,
                    beat, cached, retired, lastRun, used>>
    BY <1>1 DEF cacheVars
  <2>2. /\ CacheShapes' = CacheShapes /\ SiteSound' = SiteSound /\ JobsFollow' = JobsFollow
        /\ VersionsRise' = VersionsRise /\ RowsSound' = RowsSound
    BY <2>1 DEF CacheShapes, SiteSound, JobsFollow, JobsWithin, VersionsRise, RowsSound
  <2>3. CacheViews' = CacheViews
    BY <2>1 DEF CacheViews
  <2>4. KeysGoUp' = KeysGoUp /\ KeysAgree' = KeysAgree
    BY <2>1, <2>3 DEF KeysGoUp, KeysAgree
  <2>5. WarmSound' = WarmSound /\ RunsKept' = RunsKept
    BY <2>1 DEF WarmSound, AllResults, Warmed, RunsKept, RunsOrdered, LastRunsKept, Kept, OneEach
  <2> QED
    BY <2>2, <2>4, <2>5 DEF CacheInv
<1>2. CASE ControllerSteps
  BY <1>2, InvalidateKeeps, RetryPrewarmKeeps, StageOperationKeeps, FailOperationKeeps,
     AttachTaskKeeps, ForgetOperationKeeps, PublishSiteKeeps, PublishAgainKeeps, EditSiteKeeps,
     CloseTaskKeeps, ConfirmLateEdgesKeeps, GrowOverdueKeeps
     DEF ControllerSteps
<1>3. ASSUME NEW n \in Edges, EdgeSteps(n) PROVE CacheInv'
  BY <1>3, VisitKeeps, LoadStateKeeps, RunJobKeeps, QueueResultsKeeps, SaveCompletedKeeps,
     PersistStateKeeps, KillAgentKeeps, SendBeatKeeps, HandleBeatKeeps, AcknowledgeBeatKeeps,
     LoseBeatKeeps
     DEF EdgeSteps
<1> QED
  BY <1>1, <1>2, <1>3 DEF CacheNext

\* The rows and the cache bear out what an operation is presented as.
LEMMA PresentedHonestly == ASSUME CacheInv PROVE SucceededIsWarm
<1> SUFFICES ASSUME NEW o \in DOMAIN ops, Presented(o) = "succeeded", NEW n \in Edges
             PROVE  /\ heard[n].version >= ops[o].rows[n].target
                    /\ \A u \in ops[o].paths :
                         \E e \in cached[n] : e.url = u /\ e.epoch >= ops[o].epoch[u]
  BY DEF SucceededIsWarm
<1>1. /\ ops[o].task \in TaskStates /\ (ops[o].attached => ops[o].task # "none")
      /\ ops[o].task = "succeeded" => \A m \in Edges : ops[o].rows[m].conf = "succeeded"
      /\ ops[o].rows[n].conf = "succeeded" => heard[n].version >= ops[o].rows[n].target
      /\ ops[o].rows[n].warm = "not_requested" => ops[o].paths = {}
      /\ ops[o].rows[n].warm = "succeeded" => Warmed(n, o)
  BY RowsTyped DEF CacheInv, RowsSound, WarmSound
<1>2. \/ ops[o].paths = {} /\ ops[o].task = "succeeded"
      \/ /\ ops[o].attached /\ ops[o].task \notin {"active", "failed", "partial"}
         /\ ops[o].overdue \/ ~(\E m \in Edges : ops[o].rows[m].conf = "succeeded"
                                                /\ ops[o].rows[m].warm = "pending")
         /\ ~\E m \in Edges : WarmupIssue(o, m)
  BY DEF Presented
<1>3. ops[o].task = "succeeded"
  BY <1>1, <1>2 DEF TaskStates
<1>4. CASE ops[o].paths = {}
  BY <1>1, <1>3, <1>4
<1>5. CASE ops[o].paths # {}
  <2>1. ops[o].rows[n].warm = "succeeded"
    BY <1>1, <1>2, <1>3, <1>5 DEF WarmupIssue
  <2> QED
    BY <1>1, <1>3, <2>1 DEF Warmed
<1> QED
  BY <1>4, <1>5

LEMMA CachesTyped == ASSUME CacheInv PROVE CacheTypeOK
<1>1. \A s \in {site, publication} :
        /\ Cardinality(s.rules) <= MaxRules /\ Len(s.jobs) <= MaxJobs
        /\ s.jobs \in Seq(OperationIds) /\ s.version \in Nat
  BY SitesBounded, SiteTyped DEF CacheInv, SiteSound
<1>2. \A n \in Edges : staged[n].content \in Content /\ staged[n].jobs \in Seq(OperationIds)
  BY EdgeTyped DEF CacheInv
<1>3. \A o \in DOMAIN ops : /\ ops[o].rows \in [Edges -> Row]
                            /\ ops[o].task \in {"none", "active", "succeeded", "partial", "failed"}
  BY RowsTyped DEF TaskStates
<1>4. \A n \in Edges : /\ disk[n].completed \subseteq OperationIds
                       /\ disk[n].applied <= staged[n].version
  BY EdgeFacts, DiskTyped
<1>5. /\ running \in [Edges -> Content] /\ underway \in 0..Len(ops) /\ lastTask \in 0..Len(ops)
  BY DEF CacheInv, CacheShapes
<1> QED
  BY <1>1, <1>2, <1>3, <1>4, <1>5 DEF CacheTypeOK

\* Keys of invalidated pages never come back, an edge never serves from its
\* cache what the configuration it runs has invalidated, an operation shown as
\* succeeded has warmed every edge, and no result of a prewarm job is lost
\* between the edge's disk and the controller: mutateCacheInvalidationTx,
\* cacheOperationPresentation and the agent's result queue, in every order of
\* operations, edits, publications, kills and lost heartbeats.  An edit is one
\* action here: an UpdateSite request that encloses an invalidation undoes it.
THEOREM CachesAreSound == CacheSpec => []CacheHolds
<1>1. CacheInit => CacheInv
  BY CacheStarts
<1>2. CacheInv /\ [CacheNext]_cacheVars => CacheInv'
  BY CacheSteps
<1>3. CacheInv => CacheHolds
  <2> SUFFICES ASSUME CacheInv PROVE CacheHolds
    OBVIOUS
  <2>1. ResultsKept
    BY DEF ResultsKept, CacheInv, RunsKept, LastRunsKept, Kept
  <2>2. RetiredKeysStay /\ NoStaleHits
    BY HitsAreFresh DEF CacheInv
  <2> QED
    BY <2>1, <2>2, PresentedHonestly, CachesTyped DEF CacheHolds
<1> QED
  BY <1>1, <1>2, <1>3, PTL DEF CacheSpec
===============================================================================
