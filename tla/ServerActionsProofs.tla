-------------------------- MODULE ServerActionsProofs --------------------------
(***************************************************************************)
(* Proofs about ServerActions, for any servers and container names, shared *)
(* or not, any requests, and any number of failed calls and events.        *)
(***************************************************************************)
EXTENDS ServerActions, SequenceTheorems, FiniteSetTheorems,
        WellFoundedInduction, TLAPS

Active == pc # "idle"

At(j) == ContainerOf[list[j]]

Working == {"inspect", "remove", "create", "pull", "recreate", "start"}

(* How a request goes through its list.                                    *)
Flow ==
  Active => /\ req.batch \/ Len(list) = 1
            /\ req.action = "start" => stage = "up"
            /\ req.action \in {"stop", "remove"} => stage = "down"
            /\ pc = "pause" => req.batch /\ (req.action = "restart" => stage = "up")
            /\ pc \in {"create", "pull", "recreate", "start"} => stage = "up"

(* What the first n servers of the list have come to, given the containers, *)
(* those made by the request, and that nothing happened behind its back.   *)
Reached(box, made, calm, n) ==
  /\ stage = "down" => \A j \in 1..n : box[At(j)] = "missing"
  /\ stage = "up" /\ req.action = "restart"
       => /\ \A j \in DOMAIN list : box[At(j)] = "missing" \/ At(j) \in made
          /\ \A j \in 1..n : At(j) \in made
  /\ stage = "up" /\ calm => \A j \in 1..n : box[At(j)] = "running"

Finished == IF pc = "pause" THEN i ELSE i - 1

Calm == events = 0

(* The container of the server at hand is none of those that already run.  *)
Aimed ==
  Active /\ stage = "up" /\ Calm
    => /\ pc = "remove" => container[Target] # "running"
       /\ pc \in {"create", "pull", "recreate"} => container[Target] = "missing"
       /\ pc = "start" => container[Target] = "created"

(* A request reported as done has come to the end of its list.             *)
Settled ==
  pc = "idle" /\ outcome = "done"
    => /\ req \in Requests /\ list \in Seq(Servers)
       /\ req.action \in {"stop", "remove"} => \A j \in DOMAIN list : container[At(j)] = "missing"
       /\ req.action = "restart" => \A j \in DOMAIN list : At(j) \in fresh
       /\ req.action \in {"start", "restart"} /\ Calm
            => \A j \in DOMAIN list : container[At(j)] = "running"

Course == /\ Flow
          /\ Active => Reached(container, fresh, Calm, Finished)
          /\ Aimed
          /\ Settled

(* Between two checks one server is worked on.                             *)
Prompt == /\ CancelTouchesOne
          /\ ~cancelled => late = {}
          /\ ~blind /\ pc \in Working => late \subseteq {Target}

ActionInv == TypeOK /\ Course /\ Prompt
-----------------------------------------------------------------------------
-----------------------------------------------------------------------------
(* Every place among finitely many has a rank of its own, and every rank    *)
(* its place.                                                              *)
LEMMA RanksAreTaken ==
  ASSUME NEW P \in SUBSET Nat, IsFiniteSet(P)
  PROVE  /\ Cardinality(P) \in Nat
         /\ \A j \in 1..Cardinality(P) : \E n \in P : Rank(n, P) = j
<1> DEFINE upTo(n) == {m \in P : m <= n}
           rank == [n \in P |-> Cardinality(upTo(n))]
<1>1. Cardinality(P) \in Nat
  BY FS_CardinalityType
<1>2. ASSUME NEW n \in P
      PROVE  IsFiniteSet(upTo(n)) /\ Cardinality(upTo(n)) \in 1..Cardinality(P)
  <2>1. IsFiniteSet(upTo(n)) /\ Cardinality(upTo(n)) <= Cardinality(P)
    BY FS_Subset
  <2>2. n \in upTo(n) /\ Cardinality(upTo(n)) \in Nat
    BY <2>1, FS_CardinalityType
  <2>3. Cardinality(upTo(n)) # 0
    BY <2>1, <2>2, FS_EmptySet
  <2> QED BY <1>1, <2>1, <2>2, <2>3
<1>3. ASSUME NEW a \in P, NEW b \in P, a < b PROVE rank[a] # rank[b]
  <2>1. upTo(a) \subseteq upTo(b) /\ b \in upTo(b) /\ b \notin upTo(a)
    <3>1. a \in Nat /\ b \in Nat /\ b <= b /\ ~(b <= a) /\ \A m \in P : m <= a => m <= b
      BY <1>3
    <3> QED BY <3>1
  <2>2. Cardinality(upTo(a)) # Cardinality(upTo(b))
    BY <1>2, <2>1, FS_Subset
  <2> QED BY <2>2
<1>4. rank \in Injection(P, 1..Cardinality(P))
  <2>1. rank \in [P -> 1..Cardinality(P)]
    BY <1>2
  <2>2. \A a, b \in P : a = b \/ a < b \/ b < a
    OBVIOUS
  <2>3. \A a, b \in P : rank[a] = rank[b] => a = b
    BY <1>3, <2>2
  <2> QED BY <2>1, <2>3 DEF Injection, IsInjective
<1>5. rank \in Surjection(P, 1..Cardinality(P))
  <2>1. IsFiniteSet(1..Cardinality(P)) /\ Cardinality(1..Cardinality(P)) = Cardinality(P)
    BY <1>1, FS_Interval
  <2> HIDE DEF rank
  <2> QED BY <1>4, <2>1, FS_Injection
<1>6. ASSUME NEW j \in 1..Cardinality(P) PROVE \E n \in P : Rank(n, P) = j
  <2> PICK n \in P : rank[n] = j
    BY <1>5 DEF Surjection
  <2>1. Rank(n, P) = j
    BY DEF Rank
  <2> QED BY <2>1
<1> QED BY <1>1, <1>6

(* What stands anywhere in the keys has a first place in them.             *)
LEMMA FirstPlaceOf ==
  ASSUME NEW S, NEW keys \in Seq(S), NEW n \in DOMAIN keys
  PROVE  \E m \in FirstPlaces(keys) : keys[m] = keys[n]
<1> DEFINE same == {m \in DOMAIN keys : keys[m] = keys[n]}
<1>1. DOMAIN keys = 1..Len(keys) /\ Len(keys) \in Nat
  BY LenProperties
<1>2. same \subseteq Nat /\ same # {}
  BY <1>1
<1>3. PICK x \in same : \A y \in same : ~(<<y, x>> \in OpToRel(<, Nat))
  BY <1>2, WFMin, NatLessThanWellFounded
<1>4. ASSUME NEW y \in same PROVE ~(y < x)
  <2>1. <<y, x>> \in OpToRel(<, Nat) <=> <<y, x>> \in Nat \X Nat /\ <<y, x>>[1] < <<y, x>>[2]
    BY Zenon DEF OpToRel
  <2> QED BY <1>2, <1>3, <2>1
<1>5. x \in 1..Len(keys) /\ keys[x] = keys[n]
  BY <1>1
<1>6. ASSUME NEW m \in 1..(x - 1) PROVE keys[m] # keys[x]
  <2>1. m \in 1..Len(keys) /\ m < x
    BY <1>1, <1>5
  <2> QED BY <1>1, <1>4, <1>5, <2>1
<1> QED BY <1>1, <1>5, <1>6 DEF FirstPlaces

(* ListOf takes the keys from their first places, each place once and in    *)
(* order: what serversForKeys comes to when it walks the keys.             *)
LEMMA ListIsOfPlaces ==
  ASSUME NEW S, NEW r, r.keys \in Seq(S), r.keys # <<>>
  PROVE  LET P == FirstPlaces(r.keys)
             w == ListOf(r)
         IN  /\ w \in Seq(S) /\ w # <<>>
             /\ Len(r.keys) = 1 => Len(w) = 1
             /\ P \subseteq DOMAIN r.keys /\ P \subseteq Nat
             /\ \E at \in Bijection(DOMAIN w, P) :
                  /\ \A j \in DOMAIN w : w[j] = r.keys[at[j]]
                  /\ \A j, k \in DOMAIN w : j < k => at[j] < at[k]
<1> PICK keys \in Seq(S) : keys = r.keys
  OBVIOUS
<1> PICK P : P = FirstPlaces(keys)
  OBVIOUS
<1> PICK len \in Nat : len = Len(keys)
  BY LenProperties
<1>1. DOMAIN keys = 1..len /\ len > 0 /\ \A n \in 1..len : keys[n] \in S
  BY LenProperties, EmptySeq, ElementOfSeq
<1>2. P \subseteq 1..len /\ P \subseteq Nat /\ 1 \in P
  BY <1>1 DEF FirstPlaces
<1>3. IsFiniteSet(P)
  <2>1. IsFiniteSet(1..len)
    BY FS_Interval
  <2> QED BY <1>2, <2>1, FS_Subset
<1> PICK N \in Nat : N = Cardinality(P)
  BY <1>3, FS_CardinalityType
<1> DEFINE at == [j \in 1..N |-> CHOOSE n \in P : Rank(n, P) = j]
<1>4. \A j \in 1..N : at[j] \in P /\ Rank(at[j], P) = j
  BY <1>2, <1>3, RanksAreTaken
<1> PICK w : w = ListOf(r)
  OBVIOUS
<1>5. w = [j \in 1..N |-> keys[at[j]]]
  BY DEF ListOf
<1>6. w \in Seq(S) /\ Len(w) = N /\ DOMAIN w = 1..N
  <2>1. \A j \in 1..N : w[j] \in S
    BY <1>1, <1>2, <1>4, <1>5
  <2>2. w = [j \in 1..N |-> w[j]]
    BY <1>5
  <2>3. w \in Seq(S)
    BY <2>1, <2>2, IsASeq
  <2> QED BY <1>5, <2>3, LenProperties
<1>7. w # <<>>
  <2>1. N # 0
    BY <1>2, <1>3, FS_EmptySet
  <2> QED BY <1>6, <2>1, EmptySeq
<1>8. ASSUME len = 1 PROVE N = 1
  <2>1. P = {1}
    BY <1>2, <1>8
  <2> QED BY <2>1, FS_Singleton
<1>9. ASSUME NEW j \in 1..N, NEW k \in 1..N, j < k PROVE at[j] < at[k]
  <2> PICK m \in P : m = at[j] /\ Rank(m, P) = j
    BY <1>4
  <2> PICK n \in P : n = at[k] /\ Rank(n, P) = k
    BY <1>4
  <2>0. m \in Nat /\ n \in Nat /\ (m < n \/ n <= m)
    BY <1>2
  <2> SUFFICES ASSUME n <= m PROVE FALSE
    BY <2>0
  <2>1. {q \in P : q <= n} \subseteq {q \in P : q <= m}
    <3>1. \A q \in Nat : q <= n => q <= m
      BY <2>0
    <3> QED BY <1>2, <3>1
  <2>2. IsFiniteSet({q \in P : q <= m})
    BY <1>3, FS_Subset
  <2>3. Rank(n, P) <= Rank(m, P)
    BY <2>1, <2>2, FS_Subset DEF Rank
  <2> QED BY <1>9, <2>3
<1>10. at \in Bijection(1..N, P)
  <2>1. at \in [1..N -> P]
    BY <1>4
  <2>2. at \in Injection(1..N, P)
    BY <1>4, <2>1 DEF Injection, IsInjective
  <2>3. IsFiniteSet(1..N) /\ Cardinality(1..N) = N
    BY FS_Interval
  <2>4. at \in Surjection(1..N, P)
    BY <1>3, <2>2, <2>3, FS_Injection
  <2> QED BY <2>2, <2>4 DEF Bijection
<1> HIDE DEF at
<1>11. \A j \in DOMAIN w : w[j] = keys[at[j]]
  BY <1>5, <1>6
<1>12. \E f \in Bijection(DOMAIN w, P) :
         /\ \A j \in DOMAIN w : w[j] = keys[f[j]]
         /\ \A j, k \in DOMAIN w : j < k => f[j] < f[k]
  BY <1>6, <1>9, <1>10, <1>11
<1> QED BY <1>1, <1>2, <1>6, <1>7, <1>8, <1>12

(* serversForKeys lists every key of the request and nothing else, each of  *)
(* them once, in the order of their first places.                          *)
THEOREM ListsEachKeyOnce ==
  ASSUME NEW S, NEW r, r.keys \in Seq(S), r.keys # <<>>
  PROVE  /\ ListOf(r) \in Seq(S) /\ ListOf(r) # <<>>
         /\ ToSet(ListOf(r)) = ToSet(r.keys)
         /\ IsInjective(ListOf(r))
         /\ \A j, k \in DOMAIN ListOf(r) :
              j < k => \E m, n \in FirstPlaces(r.keys) :
                         m < n /\ ListOf(r)[j] = r.keys[m] /\ ListOf(r)[k] = r.keys[n]
<1> PICK keys \in Seq(S) : keys = r.keys
  OBVIOUS
<1> PICK P : P = FirstPlaces(keys)
  OBVIOUS
<1> PICK w : w = ListOf(r)
  OBVIOUS
<1>1. w \in Seq(S) /\ w # <<>> /\ P \subseteq DOMAIN keys /\ P \subseteq Nat
  BY ListIsOfPlaces
<1> PICK at \in Bijection(DOMAIN w, P) :
           /\ \A j \in DOMAIN w : w[j] = keys[at[j]]
           /\ \A j, k \in DOMAIN w : j < k => at[j] < at[k]
  BY ListIsOfPlaces
<1>2. /\ \A j \in DOMAIN w : at[j] \in P
      /\ \A j, k \in DOMAIN w : at[j] = at[k] => j = k
      /\ \A n \in P : \E j \in DOMAIN w : at[j] = n
  BY DEF Bijection, Injection, Surjection, IsInjective
<1>3. ToSet(w) = ToSet(keys)
  <2>1. ASSUME NEW j \in DOMAIN w PROVE w[j] \in ToSet(keys)
    BY <1>1, <1>2 DEF ToSet
  <2>2. ASSUME NEW n \in DOMAIN keys PROVE keys[n] \in ToSet(w)
    <3> PICK m \in P : keys[m] = keys[n]
      BY FirstPlaceOf
    <3> PICK j \in DOMAIN w : at[j] = m
      BY <1>2
    <3>1. w[j] = keys[n]
      OBVIOUS
    <3> QED BY <3>1 DEF ToSet
  <2> QED BY <2>1, <2>2 DEF ToSet
<1>4. IsInjective(w)
  <2> SUFFICES ASSUME NEW j \in DOMAIN w, NEW k \in DOMAIN w, w[j] = w[k] PROVE j = k
    BY DEF IsInjective
  <2> PICK m \in P : m = at[j]
    BY <1>2
  <2> PICK n \in P : n = at[k]
    BY <1>2
  <2>1. keys[m] = keys[n] /\ m \in Nat /\ n \in Nat /\ m \in DOMAIN keys /\ n \in DOMAIN keys
    BY <1>1
  <2>2. ASSUME NEW a \in P, NEW b \in P, a < b PROVE keys[a] # keys[b]
    <3>1. a \in 1..(b - 1)
      <4>1. a \in Nat /\ b \in Nat /\ a \in 1..Len(keys)
        BY <1>1, LenProperties
      <4> QED BY <2>2, <4>1
    <3> QED BY <3>1 DEF FirstPlaces
  <2>3. ~(m < n) /\ ~(n < m)
    BY <2>1, <2>2
  <2>4. m = n
    BY <2>1, <2>3
  <2> QED BY <1>2, <2>4
<1>5. ASSUME NEW j \in DOMAIN w, NEW k \in DOMAIN w, j < k
      PROVE  \E m, n \in P : m < n /\ w[j] = keys[m] /\ w[k] = keys[n]
  BY <1>2, <1>5
<1> QED BY <1>1, <1>3, <1>4, <1>5

LEMMA ListOfRequest ==
  ASSUME NEW r \in Requests, Accepted(r)
  PROVE  /\ ListOf(r) \in Seq(Servers) \ {<<>>}
         /\ r.batch \/ Len(ListOf(r)) = 1
         /\ ToSet(ListOf(r)) \subseteq ToSet(r.keys)
<1>1. /\ r.keys \in Seq(ToSet(r.keys)) /\ r.keys # <<>> /\ (r.batch \/ Len(r.keys) = 1)
      /\ ToSet(r.keys) \subseteq Servers
  BY RequestAssumption DEF Accepted
<1>2. /\ ListOf(r) \in Seq(ToSet(r.keys)) /\ ListOf(r) # <<>>
      /\ ToSet(ListOf(r)) = ToSet(r.keys)
      /\ Len(r.keys) = 1 => Len(ListOf(r)) = 1
  BY <1>1, ListIsOfPlaces, ListsEachKeyOnce
<1>3. ListOf(r) \in Seq(Servers)
  <2> PICK w : w = ListOf(r)
    OBVIOUS
  <2>1. /\ Len(w) \in Nat /\ w = [j \in 1..Len(w) |-> w[j]]
        /\ \A j \in 1..Len(w) : w[j] \in Servers
    BY <1>1, <1>2, LenProperties, ElementOfSeq
  <2> QED BY <2>1, IsASeq
<1> QED BY <1>1, <1>2, <1>3
-----------------------------------------------------------------------------
LEMMA Lists ==
  ASSUME TypeOK, Active
  PROVE  /\ req \in Requests /\ list \in Seq(Servers) /\ i \in 1..Len(list) /\ Len(list) \in Nat
         /\ i \in Nat /\ DOMAIN list = 1..Len(list)
         /\ \A j \in 1..Len(list) : list[j] \in Servers /\ At(j) \in Containers
         /\ Target \in Containers /\ Target = At(i)
         /\ req.action \in Actions /\ req.batch \in BOOLEAN
<1>1. req \in Requests /\ list \in Seq(Servers) /\ i \in 1..Len(list)
  BY DEF TypeOK, Active
<1>2. Len(list) \in Nat /\ DOMAIN list = 1..Len(list)
  BY <1>1, LenProperties
<1>3. \A j \in 1..Len(list) : list[j] \in Servers
  BY <1>1, ElementOfSeq
<1>4. \A j \in 1..Len(list) : At(j) \in Containers
  BY <1>3, ServerAssumption DEF At
<1> QED BY <1>1, <1>2, <1>3, <1>4, RequestAssumption DEF Target, Server, At

LEMMA ListFinished == ActionInv => SuccessMeansDone
<1> SUFFICES ASSUME ActionInv, Done({"start", "restart", "stop", "remove"}) PROVE SuccessMeansDone
  BY DEF SuccessMeansDone, DoneMeansRunning, DoneMeansGone, RestartRecreates, Done
<1>1. \A c \in Containers : Listed(c) => \E j \in DOMAIN list : c = At(j)
  BY DEF Listed, ToSet, At
<1> QED BY <1>1 DEF ActionInv, Course, Settled, SuccessMeansDone, DoneMeansRunning, DoneMeansGone,
                    RestartRecreates, Done, Calm

LEMMA DownFirst == ActionInv => AllDownBeforeUp
<1> SUFFICES ASSUME ActionInv, Active, req.action = "restart", stage = "up",
                    NEW c \in Containers, Listed(c)
             PROVE  container[c] = "missing" \/ c \in fresh
  BY DEF AllDownBeforeUp, Active
<1>1. PICK j \in DOMAIN list : c = At(j)
  BY DEF Listed, ToSet, At
<1> QED BY <1>1 DEF ActionInv, Course, Reached

LEMMA ActionsInit == Init => ActionInv
<1> SUFFICES ASSUME Init PROVE ActionInv
  OBVIOUS
<1>1. {image, cancelled, stopping, blind} \subseteq BOOLEAN
  BY Zenon DEF Init
<1>2. TypeOK
  BY <1>1 DEF Init, TypeOK, Outcomes
<1>3. Course
  BY DEF Init, Course, Flow, Active, Aimed, Settled
<1>4. Prompt
  BY DEF Init, Prompt, CancelTouchesOne, Working
<1> QED BY <1>2, <1>3, <1>4 DEF ActionInv
-----------------------------------------------------------------------------
(* The moves of the handler along its list.                                *)
LEMMA EndKeeps == ASSUME NEW o, o # "done", End(o) PROVE Course'
BY DEF End, Course, Flow, Active, Aimed, Settled

LEMMA GotoKeeps ==
  ASSUME Flow, Active, NEW label \in Working \cup {"check"}, Goto(label), pc # "pause",
         label \in {"create", "pull", "recreate", "start"} => stage = "up",
         Reached(container', fresh', Calm', i - 1), Aimed'
  PROVE  Course'
<1>1. pc' = label /\ UNCHANGED <<req, list, i, stage, outcome>>
  BY DEF Goto
<1>2. Active' /\ pc' # "pause" /\ pc' # "idle" /\ Finished' = i - 1
  BY <1>1 DEF Active, Finished, Working
<1>3. Flow'
  BY <1>1, <1>2 DEF Flow
<1>4. Reached(container, fresh, Calm, Finished)'
  BY <1>1, <1>2 DEF Reached, At
<1> QED BY <1>2, <1>3, <1>4 DEF Course, Settled

LEMMA DoneKeeps ==
  ASSUME TypeOK, Flow, Active, ServerDone, Reached(container', fresh', Calm', i - 1),
         stage = "down" => container'[Target] = "missing",
         stage = "up" /\ req.action = "restart" => Target \in fresh',
         stage = "up" /\ Calm' => container'[Target] = "running"
  PROVE  Course'
<1>1. /\ i \in 1..Len(list) /\ Len(list) \in Nat /\ i \in Nat /\ DOMAIN list = 1..Len(list)
      /\ Target = At(i) /\ req \in Requests /\ list \in Seq(Servers) /\ req.action \in Actions
  BY Lists
<1>2. UNCHANGED <<req, list>> /\ \A j : At(j)' = At(j)
  BY DEF ServerDone, At
<1>3. Reached(container', fresh', Calm', i)
  <2>1. \A j \in 1..i : j = i \/ j \in 1..(i - 1)
    BY <1>1
  <2> QED BY <1>1, <2>1 DEF Reached
<1>4. stage \in {"down", "up"}
  BY DEF TypeOK
<1>5. CASE /\ req.action = "restart" /\ stage = "down" /\ i < Len(list)
           /\ i' = i + 1 /\ pc' = Opening(req, "down") /\ UNCHANGED <<stage, outcome>>
  <2>1. pc' \in {"listCheck", "inspect"}
    BY <1>5 DEF Opening
  <2>2. Finished' = i
    BY <1>1, <1>5, <2>1 DEF Finished
  <2>3. Flow' /\ Aimed' /\ Settled'
    BY <1>2, <1>5, <2>1 DEF Flow, Aimed, Settled, Active
  <2>4. Reached(container, fresh, Calm, Finished)'
    BY <1>2, <1>3, <1>5, <2>2 DEF Reached
  <2> QED BY <2>3, <2>4 DEF Course
<1>6. CASE /\ req.action = "restart" /\ stage = "down" /\ i = Len(list)
           /\ i' = 1 /\ stage' = "up" /\ pc' = Opening(req, "up") /\ UNCHANGED outcome
  <2>1. pc' = "check"
    BY <1>6 DEF Opening
  <2>2. Finished' = 0
    BY <1>6, <2>1 DEF Finished
  <2>3. Flow' /\ Aimed' /\ Settled'
    BY <1>2, <1>6, <2>1 DEF Flow, Aimed, Settled, Active
  <2>4. \A j \in DOMAIN list : container'[At(j)] = "missing"
    BY <1>1, <1>3, <1>6 DEF Reached
  <2>5. Reached(container, fresh, Calm, Finished)'
    BY <1>2, <1>6, <2>2, <2>4 DEF Reached
  <2> QED BY <2>3, <2>5 DEF Course
<1>7. CASE /\ ~(req.action = "restart" /\ stage = "down") /\ UNCHANGED <<i, stage>>
           /\ req.batch /\ pc' = "pause" /\ UNCHANGED outcome
  <2>1. Finished' = i
    BY <1>7 DEF Finished
  <2>2. Flow' /\ Aimed' /\ Settled'
    BY <1>2, <1>4, <1>7 DEF Flow, Aimed, Settled, Active
  <2>3. Reached(container, fresh, Calm, Finished)'
    BY <1>2, <1>3, <1>7, <2>1 DEF Reached
  <2> QED BY <2>2, <2>3 DEF Course
<1>8. CASE /\ ~(req.action = "restart" /\ stage = "down") /\ UNCHANGED <<i, stage>>
           /\ ~req.batch /\ pc' = "idle" /\ outcome' = "done"
  <2>1. DOMAIN list = 1..i
    <3>1. Len(list) = 1
      BY <1>8 DEF Flow
    <3>2. i = 1
      BY <1>1, <3>1
    <3> QED BY <1>1, <3>1, <3>2
  <2>2. Flow' /\ Aimed' /\ ~Active'
    BY <1>8 DEF Flow, Aimed, Active
  <2>3. Settled'
    BY <1>1, <1>2, <1>3, <1>4, <1>8, <2>1 DEF Settled, Reached, Flow
  <2> QED BY <2>2, <2>3 DEF Course
<1> QED BY <1>5, <1>6, <1>7, <1>8 DEF ServerDone
-----------------------------------------------------------------------------
LEMMA InspectKeeps == ASSUME TypeOK, Course, NEW d \in Delivery, InspectContainer(d) PROVE Course'
<1>1. pc = "inspect" /\ Active /\ UNCHANGED <<container, fresh, events>>
  BY DEF InspectContainer, docker, history, Active
<1>2. Reached(container', fresh', Calm', i - 1)
  BY <1>1 DEF Course, Finished, Reached, Calm
<1>3. CASE End("failed")
  BY <1>3, EndKeeps
<1>4. CASE Satisfied /\ ServerDone
  <2>1. Target = At(i) /\ i \in DOMAIN list
    BY <1>1, Lists
  <2>2. stage = "down" => container'[Target] = "missing"
    BY <1>1, <1>4 DEF Satisfied, InPlace
  <2>3. stage = "up" => container'[Target] = "running"
    BY <1>1, <1>4 DEF Satisfied
  <2>4. stage = "up" /\ req.action = "restart" => Target \in fresh'
    BY <1>1, <1>2, <2>1, <2>3 DEF Reached
  <2> QED BY <1>1, <1>2, <1>4, <2>2, <2>3, <2>4, DoneKeeps DEF Course
<1>5. CASE ~Satisfied /\ Goto(IF InPlace(Target) THEN "remove" ELSE "create")
  <2> DEFINE label == IF InPlace(Target) THEN "remove" ELSE "create"
  <2>1. UNCHANGED <<list, i>> /\ Target' = Target /\ pc' = label
    BY <1>5 DEF Goto, Target, Server
  <2>2. label \in Working
    BY DEF Working
  <2>3. label \in {"create", "pull", "recreate", "start"} => stage = "up"
    BY <1>5 DEF Satisfied, TypeOK
  <2>4. Aimed'
    BY <1>1, <1>5, <2>1 DEF Aimed, Satisfied, InPlace, Calm, Goto
  <2> HIDE DEF label
  <2>5. Goto(label)
    BY <1>5 DEF label
  <2> QED BY <1>1, <1>2, <2>2, <2>3, <2>4, <2>5, GotoKeeps DEF Course
<1> QED BY <1>3, <1>4, <1>5 DEF InspectContainer

LEMMA RemoveKeeps == ASSUME TypeOK, Course, NEW d \in Delivery, RemoveContainer(d) PROVE Course'
<1>1. pc = "remove" /\ Active /\ UNCHANGED <<fresh, events>>
  BY DEF RemoveContainer, Active
<1>2. /\ Target = At(i) /\ i \in DOMAIN list /\ DOMAIN list = 1..Len(list) /\ i \in Nat
      /\ \A j \in 1..Len(list) : At(j) \in Containers
      /\ container \in [Containers -> {"missing", "created", "running", "down"}]
      /\ Len(list) \in Nat
  BY <1>1, Lists DEF TypeOK
<1>3. \A c \in Containers : container'[c] = container[c] \/ (c = Target /\ container'[c] = "missing")
  BY <1>2 DEF RemoveContainer
<1>4. Reached(container', fresh', Calm', i - 1)
  <2>1. Reached(container, fresh, Calm, i - 1)
    BY <1>1 DEF Course, Finished
  <2>2. 1..(i - 1) \subseteq DOMAIN list
    BY <1>2
  <2>3. stage = "up" /\ Calm => container[Target] # "running"
    BY <1>1 DEF Course, Aimed
  <2> QED BY <1>1, <1>2, <1>3, <2>1, <2>2, <2>3 DEF Reached, Calm
<1>5. CASE End("failed")
  BY <1>5, EndKeeps
<1>6. CASE d = "ok"
  <2>1. container'[Target] = "missing"
    BY <1>2, <1>6 DEF RemoveContainer, Reaches
  <2>2. CASE stage = "down" /\ ServerDone
    BY <1>1, <1>4, <2>1, <2>2, DoneKeeps DEF Course
  <2>3. CASE stage = "up" /\ Goto("create")
    <3>1. pc' = "create" /\ Target' = Target
      BY <2>3 DEF Goto, Target, Server
    <3>2. Aimed'
      BY <2>1, <3>1 DEF Aimed
    <3> QED BY <1>1, <1>4, <2>3, <3>2, GotoKeeps DEF Course, Working
  <2> QED BY <1>6, <2>2, <2>3 DEF RemoveContainer, TypeOK
<1> QED BY <1>5, <1>6 DEF RemoveContainer

LEMMA CreateKeeps == ASSUME TypeOK, Course, NEW d \in Delivery, CreateContainer(d) PROVE Course'
<1>1. pc \in {"create", "recreate"} /\ Active /\ UNCHANGED events /\ stage = "up"
  BY DEF CreateContainer, Active, Course, Flow
<1>2. /\ i \in DOMAIN list /\ DOMAIN list = 1..Len(list) /\ i \in Nat /\ Len(list) \in Nat
      /\ \A j \in 1..Len(list) : At(j) \in Containers
      /\ Target \in Containers
      /\ container \in [Containers -> {"missing", "created", "running", "down"}]
  BY <1>1, Lists DEF TypeOK
<1>3. /\ \A c \in Containers : container'[c] = container[c]
                                \/ (c = Target /\ container[c] = "missing" /\ c \in fresh')
      /\ fresh \subseteq fresh'
  BY <1>2 DEF CreateContainer, InPlace
<1>4. Reached(container', fresh', Calm', i - 1)
  <2>1. Reached(container, fresh, Calm, i - 1)
    BY <1>1 DEF Course, Finished
  <2>2. 1..(i - 1) \subseteq DOMAIN list
    BY <1>2
  <2> QED BY <1>1, <1>2, <1>3, <2>1, <2>2 DEF Reached, Calm
<1>5. CASE End("failed")
  BY <1>5, EndKeeps
<1>6. CASE d = "ok" /\ image /\ ~InPlace(Target) /\ Goto("start")
  <2>1. container'[Target] = "created"
    BY <1>2, <1>6 DEF CreateContainer, Reaches
  <2>2. pc' = "start" /\ Target' = Target
    BY <1>6 DEF Goto, Target, Server
  <2>3. Aimed'
    BY <2>1, <2>2 DEF Aimed
  <2> QED BY <1>1, <1>4, <1>6, <2>3, GotoKeeps DEF Course, Working
<1>7. CASE d = "ok" /\ ~image /\ Goto("pull")
  <2>1. container' = container
    BY <1>7 DEF CreateContainer
  <2>2. pc' = "pull" /\ Target' = Target /\ UNCHANGED stage
    BY <1>7 DEF Goto, Target, Server
  <2>3. Aimed'
    BY <1>1, <2>1, <2>2 DEF Aimed, Course, Calm, Active
  <2> QED BY <1>1, <1>4, <1>7, <2>3, GotoKeeps DEF Course, Working
<1> QED BY <1>5, <1>6, <1>7 DEF CreateContainer

LEMMA PullKeeps == ASSUME TypeOK, Course, NEW d \in Delivery, PullImage(d) PROVE Course'
<1>1. pc = "pull" /\ Active /\ UNCHANGED <<container, fresh, events>> /\ stage = "up"
  BY DEF PullImage, history, Active, Course, Flow
<1>2. Reached(container', fresh', Calm', i - 1)
  BY <1>1 DEF Course, Finished, Reached, Calm
<1>3. CASE End("failed")
  BY <1>3, EndKeeps
<1>4. CASE Goto("recreate")
  <2>1. pc' = "recreate" /\ Target' = Target /\ UNCHANGED stage
    BY <1>4 DEF Goto, Target, Server
  <2>2. Aimed'
    BY <1>1, <2>1 DEF Aimed, Course, Calm, Active
  <2> QED BY <1>1, <1>2, <1>4, <2>2, GotoKeeps DEF Course, Working
<1> QED BY <1>3, <1>4 DEF PullImage

LEMMA StartKeeps == ASSUME TypeOK, Course, NEW d \in Delivery, StartContainer(d) PROVE Course'
<1>1. pc = "start" /\ Active /\ UNCHANGED <<fresh, events>> /\ stage = "up"
  BY DEF StartContainer, Active, Course, Flow
<1>2. /\ Target = At(i) /\ i \in DOMAIN list /\ DOMAIN list = 1..Len(list) /\ i \in Nat
      /\ Len(list) \in Nat /\ \A j \in 1..Len(list) : At(j) \in Containers
      /\ Target \in Containers
      /\ container \in [Containers -> {"missing", "created", "running", "down"}]
  BY <1>1, Lists DEF TypeOK
<1>3. \A c \in Containers : container'[c] = container[c]
                             \/ (c = Target /\ container[c] # "missing" /\ container'[c] = "running")
  BY <1>2 DEF StartContainer, InPlace
<1>4. Reached(container', fresh', Calm', i - 1)
  <2>1. Reached(container, fresh, Calm, i - 1)
    BY <1>1 DEF Course, Finished
  <2>2. 1..(i - 1) \subseteq DOMAIN list
    BY <1>2
  <2> QED BY <1>1, <1>2, <1>3, <2>1, <2>2 DEF Reached, Calm
<1>5. CASE End("failed")
  BY <1>5, EndKeeps
<1>6. CASE d = "ok" /\ InPlace(Target) /\ ServerDone
  <2>1. container'[Target] = "running"
    BY <1>2, <1>6 DEF StartContainer, Reaches
  <2>2. req.action = "restart" => Target \in fresh'
    BY <1>1, <1>2, <1>4, <2>1 DEF Reached
  <2> QED BY <1>1, <1>4, <1>6, <2>1, <2>2, DoneKeeps DEF Course
<1> QED BY <1>5, <1>6 DEF StartContainer

LEMMA PauseKeeps == ASSUME TypeOK, Course, Pause PROVE Course'
<1>1. /\ pc = "pause" /\ Active /\ UNCHANGED <<container, fresh, events>>
      /\ req.batch /\ (req.action = "restart" => stage = "up")
  BY DEF Pause, docker, history, Active, Course, Flow
<1>2. /\ i \in 1..Len(list) /\ i \in Nat /\ DOMAIN list = 1..Len(list) /\ req.action \in Actions
      /\ req \in Requests /\ list \in Seq(Servers)
  BY <1>1, Lists
<1>3. Reached(container, fresh, Calm, i)
  BY <1>1 DEF Course, Finished
<1>4. CASE i < Len(list)
  <2>1. /\ i' = i + 1 /\ pc' = Opening(req, stage) /\ UNCHANGED <<req, list, stage, outcome>>
    BY <1>4 DEF Pause
  <2>2. pc' \in {"listCheck", "check"}
    BY <1>1, <2>1 DEF Opening, TypeOK
  <2>3. Finished' = i
    BY <1>2, <2>1, <2>2 DEF Finished
  <2>4. Flow' /\ Aimed' /\ Settled'
    BY <1>1, <2>1, <2>2 DEF Course, Flow, Aimed, Settled, Active
  <2>5. Reached(container, fresh, Calm, Finished)'
    BY <1>1, <1>3, <2>1, <2>3 DEF Reached, Calm, At
  <2> QED BY <2>4, <2>5 DEF Course
<1>5. CASE ~(i < Len(list))
  <2>1. pc' = "idle" /\ UNCHANGED <<req, list, i, stage>>
    BY <1>5 DEF Pause, End
  <2>2. DOMAIN list = 1..i
    <3>1. Len(list) \in Nat
      BY <1>1, Lists
    <3>2. i \in 1..Len(list) /\ ~(i < Len(list))
      BY <1>2, <1>5
    <3>3. \A n \in Nat : \A k \in 1..n : k < n \/ k = n
      OBVIOUS
    <3>4. i = Len(list)
      BY <3>1, <3>2, <3>3
    <3> QED BY <1>2, <3>4
  <2>3. req.action \in {"stop", "remove"} => stage = "down"
    BY <1>1 DEF Course, Flow
  <2>4. req.action \in {"start", "restart"} => stage = "up"
    BY <1>1 DEF Course, Flow
  <2>5. Settled'
    BY <1>1, <1>2, <1>3, <2>1, <2>2, <2>3, <2>4 DEF Settled, Reached, Calm, At
  <2> QED BY <2>1, <2>5 DEF Course, Flow, Aimed, Active
<1> QED BY <1>4, <1>5

LEMMA CheckKeeps == ASSUME TypeOK, Course, CheckPasses \/ CheckBlind \/ CheckStops PROVE Course'
<1>1. pc \in {"listCheck", "check"} /\ Active /\ UNCHANGED <<container, fresh, events>>
  BY DEF CheckPasses, CheckBlind, CheckStops, docker, history, Active
<1>2. CASE End("failed") \/ End("cancelled")
  BY <1>2, EndKeeps
<1>3. CASE Goto(Checked)
  <2>1. Checked \in {"check", "inspect"}
    BY DEF Checked
  <2>2. Reached(container', fresh', Calm', i - 1)
    BY <1>1 DEF Course, Finished, Reached, Calm
  <2>3. Aimed'
    BY <1>3, <2>1 DEF Goto, Aimed
  <2> QED BY <1>1, <1>3, <2>1, <2>2, <2>3, GotoKeeps DEF Course, Working
<1> QED BY <1>2, <1>3 DEF CheckPasses, CheckBlind, CheckStops

LEMMA ReceiveKeeps == ASSUME TypeOK, NEW r \in Requests, Receive(r) PROVE TypeOK' /\ Course'
<1>1. /\ req' = r /\ list' = ListOf(r) /\ i' = 1 /\ stage' = FirstStage(r) /\ cancelled' = FALSE
      /\ fresh' = {} /\ late' = {} /\ blind' = FALSE /\ faults' = 0 /\ events' = 0
      /\ UNCHANGED <<container, image, stopping>>
  BY DEF Receive, docker
<1>2. r.action \in Actions /\ r.batch \in BOOLEAN
  BY RequestAssumption
<1>3. CASE Accepted(r)
  <2>1. pc' = Opening(r, FirstStage(r)) /\ outcome' = "none"
    BY <1>3 DEF Receive
  <2>2. pc' \in {"listCheck", "inspect", "check"}
    BY <2>1 DEF Opening
  <2>3. list' \in Seq(Servers) /\ list' # <<>> /\ (r.batch \/ Len(list') = 1)
    BY <1>1, <1>3, ListOfRequest
  <2>4. 1 \in 1..Len(list')
    BY <2>3, EmptySeq
  <2>5. TypeOK'
    <3>1. {image', cancelled', stopping', blind'} \subseteq BOOLEAN
      <4>1. image' \in BOOLEAN /\ stopping' \in BOOLEAN
        BY <1>1 DEF TypeOK
      <4>2. cancelled' \in BOOLEAN /\ blind' \in BOOLEAN
        BY <1>1, Zenon
      <4> QED BY <4>1, <4>2
    <3>2. stage' \in {"down", "up"}
      BY <1>1 DEF FirstStage
    <3> QED BY <1>1, <2>1, <2>2, <2>3, <2>4, <3>1, <3>2 DEF TypeOK, Outcomes
  <2>6. Finished' = 0
    BY <1>1, <2>2 DEF Finished
  <2>7. Flow' /\ Aimed' /\ Settled'
    BY <1>1, <1>2, <2>2, <2>3 DEF Flow, Aimed, Settled, FirstStage, Active, Actions
  <2>8. Reached(container, fresh, Calm, Finished)'
    BY <1>1, <2>6 DEF Reached, FirstStage
  <2> QED BY <2>5, <2>7, <2>8 DEF Course
<1>4. CASE ~Accepted(r)
  <2>1. pc' = "idle" /\ outcome' = "failed"
    BY <1>4 DEF Receive
  <2>2. {image', cancelled', stopping', blind'} \subseteq BOOLEAN
    <3>1. image' \in BOOLEAN /\ stopping' \in BOOLEAN
      BY <1>1 DEF TypeOK
    <3>2. cancelled' \in BOOLEAN /\ blind' \in BOOLEAN
      BY <1>1, Zenon
    <3> QED BY <3>1, <3>2
  <2>3. TypeOK'
    BY <1>1, <2>1, <2>2 DEF TypeOK, Outcomes, FirstStage
  <2> QED BY <2>1, <2>3 DEF Course, Flow, Aimed, Settled, Active
<1> QED BY <1>3, <1>4

(* Behind the agent's back no container comes into being.                  *)
LEMMA EventKeeps ==
  ASSUME TypeOK, Course, NEW c \in Containers, Exits(c) \/ ComesBack(c) \/ IsRemoved(c)
  PROVE  TypeOK' /\ Course'
<1>1. /\ UNCHANGED <<image, cancelled, stopping, fresh, late, blind, faults>>
      /\ UNCHANGED <<pc, req, list, i, stage, outcome>>
      /\ events' = events + 1 /\ events \in Nat
  BY DEF Exits, ComesBack, IsRemoved, Event, handler, TypeOK
<1>2. /\ container' \in [Containers -> {"missing", "created", "running", "down"}]
      /\ \A b \in Containers : container[b] = "missing" => container'[b] = "missing"
  BY DEF Exits, ComesBack, IsRemoved, Event, TypeOK
<1>3. ~Calm'
  BY <1>1 DEF Calm
<1>4. TypeOK'
  BY <1>1, <1>2 DEF TypeOK
<1>5. Flow' /\ Aimed'
  BY <1>1, <1>3 DEF Course, Flow, Aimed, Active
<1>6. ASSUME Active PROVE Reached(container, fresh, Calm, Finished)'
  <2>1. \A j \in 1..Len(list) : At(j) \in Containers
    BY <1>6, Lists
  <2>2. 1..Finished \subseteq 1..Len(list) /\ DOMAIN list = 1..Len(list)
    BY <1>6, Lists DEF Finished
  <2> QED BY <1>1, <1>2, <1>3, <1>6, <2>1, <2>2 DEF Course, Reached, Finished, At
<1>7. Settled'
  <2>1. SUFFICES ASSUME pc = "idle", outcome = "done" PROVE Settled'
    BY <1>1 DEF Settled
  <2>2. Settled /\ list \in Seq(Servers)
    BY <2>1 DEF Course, Settled
  <2>3. \A j \in DOMAIN list : At(j) \in Containers
    BY <2>2, ElementOfSeq, LenProperties, ServerAssumption DEF At
  <2> QED BY <1>1, <1>2, <1>3, <2>1, <2>2, <2>3 DEF Settled, At
<1> QED BY <1>1, <1>4, <1>5, <1>6, <1>7 DEF Course, Active
-----------------------------------------------------------------------------
(* Types of the handler's variables; those of the daemon are apart.        *)
Control ==
  /\ pc \in {"idle", "listCheck", "check", "inspect", "remove", "create", "pull",
             "recreate", "start", "pause"}
  /\ req \in Requests \cup {NoRequest}
  /\ pc # "idle" => req \in Requests /\ list \in Seq(Servers) /\ i \in 1..Len(list)
  /\ stage \in {"down", "up"}
  /\ outcome \in Outcomes

Daemon ==
  /\ container \in [Containers -> {"missing", "created", "running", "down"}]
  /\ {image, cancelled, stopping, blind} \subseteq BOOLEAN
  /\ fresh \subseteq Containers
  /\ late \subseteq Containers
  /\ {faults, events} \subseteq Nat

LEMMA TypeSplit == TypeOK <=> Control /\ Daemon
BY DEF TypeOK, Control, Daemon

LEMMA MovesAreTyped ==
  ASSUME TypeOK, Active,
         \/ ServerDone
         \/ \E o \in {"done", "failed", "cancelled", "lost"} : End(o)
         \/ \E label \in Working \cup {"check"} : Goto(label)
  PROVE  Control'
<1>1. /\ i \in 1..Len(list) /\ Len(list) \in Nat /\ i \in Nat
      /\ req \in Requests /\ list \in Seq(Servers)
  BY Lists
<1>2. stage \in {"down", "up"} /\ outcome \in Outcomes
  BY DEF TypeOK
<1>3. CASE \E o \in {"done", "failed", "cancelled", "lost"} : End(o)
  BY <1>1, <1>2, <1>3 DEF End, Control, Outcomes
<1>4. CASE \E label \in Working \cup {"check"} : Goto(label)
  BY <1>1, <1>2, <1>4 DEF Goto, Control, Working
<1>5. CASE ServerDone
  <2>1. UNCHANGED <<req, list>>
    BY <1>5 DEF ServerDone
  <2>2. i' \in 1..Len(list) /\ stage' \in {"down", "up"} /\ outcome' \in Outcomes
    BY <1>1, <1>2, <1>5 DEF ServerDone, Outcomes
  <2>3. pc' \in {"listCheck", "check", "inspect", "pause", "idle"}
    BY <1>5 DEF ServerDone, Opening
  <2> QED BY <1>1, <2>1, <2>2, <2>3 DEF Control
<1> QED BY <1>3, <1>4, <1>5

LEMMA CallsAreTyped == ASSUME TypeOK, NEW d \in Delivery, Call(d) PROVE faults' \in Nat
BY DEF TypeOK, Call

LEMMA HandlerTypes == ASSUME TypeOK, Handler PROVE TypeOK'
<1>1. CASE Pause
  <2>1. Active /\ UNCHANGED <<container, image, cancelled, stopping, fresh, late, blind, events, faults>>
    BY <1>1 DEF Pause, docker, history, Active
  <2>2. Daemon'
    BY <2>1, TypeSplit DEF Daemon
  <2>3. CASE i < Len(list)
    <3>1. i' = i + 1 /\ pc' = Opening(req, stage) /\ UNCHANGED <<req, list, stage, outcome>>
      BY <1>1, <2>3 DEF Pause
    <3>2. i' \in 1..Len(list)
      BY <2>1, <2>3, <3>1, Lists
    <3>3. pc' \in {"listCheck", "inspect", "check"}
      BY <3>1 DEF Opening
    <3>4. Control'
      BY <2>1, <3>1, <3>2, <3>3, Lists DEF Control, TypeOK
    <3> QED BY <2>2, <3>4 DEF TypeOK, Control, Daemon
  <2>4. CASE ~(i < Len(list))
    <3>1. End("done")
      BY <1>1, <2>4 DEF Pause
    <3>2. Control'
      BY <2>1, <3>1, MovesAreTyped
    <3> QED BY <2>2, <3>2 DEF TypeOK, Control, Daemon
  <2> QED BY <2>3, <2>4
<1>2. CASE CheckPasses \/ CheckBlind \/ CheckStops
  <2>1. Active /\ UNCHANGED <<container, image, cancelled, stopping, fresh, late, events>>
    BY <1>2 DEF CheckPasses, CheckBlind, CheckStops, docker, history, Active
  <2>2. blind' \in BOOLEAN /\ faults' \in Nat
    BY <1>2 DEF CheckPasses, CheckBlind, CheckStops, history, TypeOK
  <2>3. Daemon'
    BY <2>1, <2>2, TypeSplit DEF Daemon
  <2>4. Checked \in Working \cup {"check"}
    BY DEF Checked, Working
  <2>5. Control'
    BY <1>2, <2>1, <2>4, MovesAreTyped DEF CheckPasses, CheckBlind, CheckStops
  <2> QED BY <2>3, <2>5 DEF TypeOK, Control, Daemon
<1>3. ASSUME NEW d \in Delivery,
             InspectContainer(d) \/ RemoveContainer(d) \/ CreateContainer(d) \/ PullImage(d)
               \/ StartContainer(d)
      PROVE  TypeOK'
  <2>1. Active /\ UNCHANGED <<cancelled, stopping, blind, events>> /\ Call(d)
    BY <1>3 DEF InspectContainer, RemoveContainer, CreateContainer, PullImage, StartContainer,
                docker, history, Active
  <2>2. Target \in Containers
    BY <2>1, Lists
  <2>3. container' \in [Containers -> {"missing", "created", "running", "down"}]
    BY <1>3 DEF InspectContainer, RemoveContainer, CreateContainer, PullImage, StartContainer,
                docker, TypeOK
  <2>4. image' \in BOOLEAN
    BY <1>3 DEF InspectContainer, RemoveContainer, CreateContainer, PullImage, StartContainer,
                docker, TypeOK
  <2>5. fresh' \subseteq Containers /\ late' \subseteq Containers
    BY <1>3, <2>2 DEF InspectContainer, RemoveContainer, CreateContainer, PullImage, StartContainer,
                      history, TypeOK, Touch
  <2>6. Daemon'
    BY <2>1, <2>3, <2>4, <2>5, CallsAreTyped DEF TypeOK, Daemon
  <2>7. Control'
    <3>1. {"remove", "create", "start", "pull", "recreate"} \subseteq Working
      BY DEF Working
    <3>2. \/ ServerDone \/ End("failed")
          \/ \E label \in {"remove", "create", "start", "pull", "recreate"} : Goto(label)
      BY <1>3 DEF InspectContainer, RemoveContainer, CreateContainer, PullImage, StartContainer
    <3> QED BY <2>1, <3>1, <3>2, MovesAreTyped
  <2> QED BY <2>6, <2>7 DEF TypeOK, Control, Daemon
<1> QED BY <1>1, <1>2, <1>3 DEF Handler

LEMMA OutsideKeeps ==
  ASSUME TypeOK, Course, Cancel \/ Stop \/ Crash \/ Restarted \/ UNCHANGED vars
  PROVE  TypeOK' /\ Course'
<1>1. UNCHANGED <<container, image, req, list, i, stage, fresh, late, blind, events>>
  BY DEF Cancel, Stop, Crash, Restarted, vars, docker, handler, history, End
<1>2. cancelled' \in BOOLEAN /\ stopping' \in BOOLEAN /\ faults' \in Nat
  <2>1. CASE Cancel \/ Stop \/ Crash \/ Restarted
    <3>1. faults' \in Nat
      BY <2>1 DEF Cancel, Stop, Crash, Restarted, TypeOK, history
    <3>2. cancelled' = cancelled \/ cancelled' = TRUE
      BY <2>1 DEF Cancel, Stop, Crash, Restarted
    <3>3. stopping' = stopping \/ stopping' = TRUE \/ stopping' = FALSE
      BY <2>1 DEF Cancel, Stop, Crash, Restarted
    <3>4. cancelled \in BOOLEAN /\ stopping \in BOOLEAN
      BY DEF TypeOK
    <3> QED BY <3>1, <3>2, <3>3, <3>4
  <2>2. CASE UNCHANGED vars
    BY <2>2 DEF vars, TypeOK
  <2> QED BY <2>1, <2>2
<1>3. Daemon'
  BY <1>1, <1>2, TypeSplit DEF Daemon
<1>4. CASE Crash
  <2>1. End("lost") /\ Active
    BY <1>4 DEF Crash, Active
  <2>2. Control'
    BY <2>1, MovesAreTyped
  <2>3. Course'
    BY <2>1, EndKeeps
  <2> QED BY <1>3, <2>2, <2>3 DEF TypeOK, Control, Daemon
<1>5. CASE Cancel \/ Stop \/ Restarted \/ UNCHANGED vars
  <2>1. UNCHANGED <<pc, outcome>>
    BY <1>5 DEF Cancel, Stop, Restarted, vars, handler
  <2>2. Control'
    BY <1>1, <2>1, TypeSplit DEF Control
  <2>3. Flow' /\ Aimed' /\ Settled'
    BY <1>1, <2>1 DEF Course, Flow, Aimed, Settled, Active, Target, Server, At, Calm
  <2>4. Active' => Reached(container, fresh, Calm, Finished)'
    BY <1>1, <2>1 DEF Course, Active, Reached, Finished, At, Calm
  <2>5. TypeOK'
    BY <1>3, <2>2 DEF TypeOK, Control, Daemon
  <2> QED BY <2>3, <2>4, <2>5 DEF Course
<1> QED BY <1>4, <1>5

LEMMA CourseStep == TypeOK /\ Course /\ [Next]_vars => TypeOK' /\ Course'
<1> SUFFICES ASSUME TypeOK, Course, [Next]_vars PROVE TypeOK' /\ Course'
  OBVIOUS
<1>1. CASE \E r \in Requests : Receive(r)
  BY <1>1, ReceiveKeeps
<1>2. CASE Handler
  <2>1. TypeOK'
    BY <1>2, HandlerTypes
  <2>2. Course'
    BY <1>2, PauseKeeps, CheckKeeps, InspectKeeps, RemoveKeeps, CreateKeeps, PullKeeps, StartKeeps
       DEF Handler
  <2> QED BY <2>1, <2>2
<1>3. CASE Environment
  BY <1>3, EventKeeps, OutsideKeeps DEF Environment
<1>4. CASE UNCHANGED vars
  BY <1>4, OutsideKeeps
<1> QED BY <1>1, <1>2, <1>3, <1>4 DEF Next
-----------------------------------------------------------------------------
(* After a cancellation the handler leaves its server only for a check or   *)
(* a pause, and the check lets nobody pass who can ask.                     *)
LEMMA DoneLeads ==
  ASSUME TypeOK, Flow, Active, ServerDone
  PROVE  pc' \notin Working
<1>1. i \in 1..Len(list) /\ Len(list) \in Nat
  BY Lists
<1>2. ASSUME req.action = "restart", stage = "down", i < Len(list) PROVE req.batch
  <2>1. req.batch \/ Len(list) = 1
    BY DEF Flow
  <2>2. \A n \in Nat : \A k \in 1..n : n = 1 => ~(k < n)
    OBVIOUS
  <2>3. ~(Len(list) = 1)
    BY <1>1, <1>2, <2>2
  <2> QED BY <2>1, <2>3
<1>3. Opening(req, "up") \in {"listCheck", "check"}
  BY DEF Opening
<1>4. req.batch => Opening(req, "down") = "listCheck"
  BY DEF Opening
<1> QED BY <1>2, <1>3, <1>4 DEF ServerDone, Working

LEMMA PromptStep == TypeOK /\ Course /\ Prompt /\ [Next]_vars => Prompt'
<1> SUFFICES ASSUME TypeOK, Course, Prompt, [Next]_vars PROVE Prompt'
  OBVIOUS
<1>1. CASE \E r \in Requests : Receive(r)
  BY <1>1 DEF Receive, Prompt, CancelTouchesOne
<1>2. CASE Pause
  <2>1. UNCHANGED <<cancelled, late, blind>> /\ req.batch /\ (req.action = "restart" => stage = "up")
        /\ stage \in {"down", "up"}
    BY <1>2 DEF Pause, history, Course, Flow, Active, TypeOK
  <2>2. pc' \in {"listCheck", "check", "idle"}
    BY <1>2, <2>1 DEF Pause, End, Opening
  <2> QED BY <2>1, <2>2 DEF Prompt, CancelTouchesOne, Working
<1>3. CASE CheckPasses \/ CheckBlind \/ CheckStops
  <2>1. UNCHANGED <<cancelled, late>>
    BY <1>3 DEF CheckPasses, CheckBlind, CheckStops, history
  <2>2. CASE CheckPasses
    BY <2>1, <2>2 DEF CheckPasses, history, Prompt, CancelTouchesOne
  <2>3. CASE CheckBlind
    BY <2>1, <2>3 DEF CheckBlind, Prompt, CancelTouchesOne, TypeOK
  <2>4. CASE CheckStops
    BY <2>1, <2>4 DEF CheckStops, End, history, Prompt, CancelTouchesOne, Working
  <2> QED BY <1>3, <2>2, <2>3, <2>4
<1>4. ASSUME NEW d \in Delivery,
             InspectContainer(d) \/ RemoveContainer(d) \/ CreateContainer(d) \/ PullImage(d)
               \/ StartContainer(d)
      PROVE  Prompt'
  <2>1. pc \in Working /\ Active /\ UNCHANGED <<cancelled, blind>>
    BY <1>4 DEF InspectContainer, RemoveContainer, CreateContainer, PullImage, StartContainer,
                history, Working, Active
  <2>2. late' \in {late, IF cancelled THEN late \cup {Target} ELSE late}
    BY <1>4 DEF InspectContainer, RemoveContainer, CreateContainer, PullImage, StartContainer,
                history, Touch
  <2>3. ~blind => late' \subseteq {Target}
    BY <2>1, <2>2 DEF Prompt
  <2>4. ~cancelled => late' = {}
    BY <2>2 DEF Prompt
  <2>5. pc' \in Working => Target' = Target
    <3>1. \/ ServerDone \/ End("failed")
          \/ \E label \in {"remove", "create", "start", "pull", "recreate"} : Goto(label)
      BY <1>4 DEF InspectContainer, RemoveContainer, CreateContainer, PullImage, StartContainer
    <3>2. CASE ServerDone
      BY <2>1, <3>2, DoneLeads DEF Course
    <3>3. CASE ~ServerDone
      BY <3>1, <3>3 DEF End, Goto, Target, Server
    <3> QED BY <3>2, <3>3
  <2> QED BY <2>1, <2>3, <2>4, <2>5 DEF Prompt, CancelTouchesOne
<1>5. CASE Environment \/ UNCHANGED vars
  <2>1. UNCHANGED <<late, blind, list, i>> /\ (pc' \in Working => pc' = pc)
    BY <1>5 DEF Environment, Cancel, Stop, Crash, Restarted, Exits, ComesBack, IsRemoved, Event,
                vars, handler, history, End, Working
  <2>2. cancelled' = cancelled \/ cancelled'
    BY <1>5 DEF Environment, Cancel, Stop, Crash, Restarted, Exits, ComesBack, IsRemoved, Event, vars
  <2> QED BY <2>1, <2>2 DEF Prompt, CancelTouchesOne, Target, Server
<1> QED BY <1>1, <1>2, <1>3, <1>4, <1>5 DEF Next, Handler

(* The inductive invariant: how far the list is done in which state of the  *)
(* containers, what the next call aims at, and what a cancelled request may *)
(* still touch.                                                            *)
THEOREM ActionInvariant == Spec => []ActionInv
<1>1. Init => ActionInv
  BY ActionsInit
<1>2. ActionInv /\ [Next]_vars => ActionInv'
  BY CourseStep, PromptStep DEF ActionInv
<1> QED BY <1>1, <1>2, PTL DEF Spec

(* Every variable of the server actions keeps its type.                     *)
THEOREM ActionTypes == Spec => []TypeOK
<1>1. ActionInv => TypeOK
  BY DEF ActionInv
<1> QED BY <1>1, ActionInvariant, PTL

(* A request that is reported as done has done what it says to every server *)
(* of its list, shared container names and half-made containers included.  *)
THEOREM DoneIsDone == Spec => []SuccessMeansDone
<1> QED BY ActionInvariant, ListFinished, PTL

(* A list restart has taken all its servers down before it starts one.      *)
THEOREM RestartGoesDownFirst == Spec => []AllDownBeforeUp
<1> QED BY ActionInvariant, DownFirst, PTL

(* A cancelled request that can ask touches at most one more container.     *)
THEOREM CancelIsPrompt == Spec => []CancelTouchesOne
<1>1. ActionInv => CancelTouchesOne
  BY DEF ActionInv, Prompt
<1> QED BY <1>1, ActionInvariant, PTL

LEMMA RunningStays ==
  ActionInv /\ [Next]_vars
    => [pc # "idle" /\ req.action = "start" /\ events' = 0
          => \A c \in Containers : container[c] = "running" => container'[c] = "running"]_vars
<1> SUFFICES ASSUME ActionInv, [Next]_vars, Active, req.action = "start", events' = 0,
                    NEW c \in Containers, container[c] = "running"
             PROVE  container'[c] = "running"
  BY DEF Active
<1>1. TypeOK /\ Flow /\ Aimed /\ stage = "up"
  BY DEF ActionInv, Course, Flow
<1>2. CASE \E r \in Requests : Receive(r)
  BY <1>2 DEF Receive, Active
<1>3. ASSUME NEW d \in Delivery, RemoveContainer(d) PROVE container'[c] = "running"
  <2>1. Calm /\ pc = "remove"
    BY <1>3 DEF RemoveContainer, Calm
  <2>2. c # Target
    BY <1>1, <2>1 DEF Aimed
  <2> QED BY <1>1, <1>3, <2>2 DEF RemoveContainer, TypeOK
<1>4. ASSUME NEW d \in Delivery, CreateContainer(d) \/ StartContainer(d) PROVE container'[c] = "running"
  BY <1>1, <1>4 DEF CreateContainer, StartContainer, InPlace, TypeOK
<1>5. ASSUME NEW d \in Delivery, InspectContainer(d) \/ PullImage(d) PROVE container'[c] = "running"
  BY <1>5 DEF InspectContainer, PullImage, docker
<1>6. CASE Pause \/ CheckPasses \/ CheckBlind \/ CheckStops \/ Cancel \/ Stop \/ Crash \/ Restarted
           \/ UNCHANGED vars
  BY <1>6 DEF Pause, CheckPasses, CheckBlind, CheckStops, Cancel, Stop, Crash, Restarted, vars, docker
<1>7. ASSUME NEW b \in Containers, Exits(b) \/ ComesBack(b) \/ IsRemoved(b) PROVE FALSE
  <2>1. events' = events + 1 /\ events \in Nat
    BY <1>1, <1>7 DEF Exits, ComesBack, IsRemoved, Event, TypeOK
  <2> QED BY <2>1
<1> QED BY <1>2, <1>3, <1>4, <1>5, <1>6, <1>7 DEF Next, Handler, Environment

(* A start request interrupts no running server that it was not surprised   *)
(* by.                                                                     *)
THEOREM StartInterruptsNone == Spec => StartKeepsRunning
<1> QED BY ActionInvariant, RunningStays, PTL DEF Spec, StartKeepsRunning
-----------------------------------------------------------------------------
(* The inductive invariant of OthersAreLeft: the list is the request's.    *)
Requested == Active => Accepted(req) /\ ToSet(list) \subseteq ToSet(req.keys)

LEMMA RequestedStep == TypeOK /\ Requested /\ [Next]_vars => Requested'
<1> SUFFICES ASSUME TypeOK, Requested, [Next]_vars PROVE Requested'
  OBVIOUS
<1>1. ASSUME NEW r \in Requests, Receive(r) PROVE Requested'
  <2>1. req' = r /\ list' = ListOf(r) /\ (~Accepted(r) => pc' = "idle")
    BY <1>1 DEF Receive
  <2> QED BY <1>1, <2>1, ListOfRequest DEF Requested, Active
<1>2. ASSUME UNCHANGED <<req, list>>, pc' # "idle" => pc # "idle" PROVE Requested'
  BY <1>2 DEF Requested, Active, Accepted
<1>3. CASE Handler
  <2>1. UNCHANGED <<req, list>> /\ pc # "idle"
    BY <1>3 DEF Handler, Pause, CheckPasses, CheckBlind, CheckStops, InspectContainer,
                RemoveContainer, CreateContainer, PullImage, StartContainer, ServerDone, End, Goto
  <2> QED BY <1>2, <2>1
<1>4. CASE Environment
  <2>1. UNCHANGED <<req, list>> /\ (pc' # "idle" => pc # "idle")
    BY <1>4 DEF Environment, Cancel, Stop, Crash, Restarted, Exits, ComesBack, IsRemoved, Event,
                End, handler
  <2> QED BY <1>2, <2>1
<1>5. CASE UNCHANGED vars
  BY <1>2, <1>5 DEF vars, handler
<1> QED BY <1>1, <1>3, <1>4, <1>5 DEF Next

(* Whatever fails and whoever shares a container name, a request changes no *)
(* container but those of servers among its keys, and none when one of its *)
(* keys is unknown.                                                        *)
THEOREM OthersAreLeft == Spec => OnlyListedTouched
<1>1. Init => Requested
  BY DEF Init, Requested, Active
<1>2. TypeOK /\ Requested /\ [Next]_vars
        => [\A c \in Containers :
              container'[c] # container[c] /\ events' = events
                => /\ Accepted(req)
                   /\ \E k \in ToSet(req.keys) : c = ContainerOf[k]]_vars
  <2> SUFFICES ASSUME TypeOK, Requested, Next, NEW c \in Containers,
                      container'[c] # container[c], events' = events
               PROVE  Accepted(req) /\ \E k \in ToSet(req.keys) : c = ContainerOf[k]
    OBVIOUS
  <2>1. container \in [Containers -> {"missing", "created", "running", "down"}] /\ events \in Nat
    BY DEF TypeOK
  <2>2. CASE Handler
    <3>1. Active
      BY <2>2 DEF Active, Handler, Pause, CheckPasses, CheckBlind, CheckStops, InspectContainer,
                  RemoveContainer, CreateContainer, PullImage, StartContainer
    <3>2. c = Target
      BY <2>1, <2>2 DEF Handler, Pause, CheckPasses, CheckBlind, CheckStops, InspectContainer,
                        RemoveContainer, CreateContainer, PullImage, StartContainer, docker
    <3>3. Server \in ToSet(list)
      BY <3>1, Lists DEF ToSet, Server
    <3> QED BY <3>1, <3>2, <3>3 DEF Requested, Target
  <2>3. CASE Environment
    BY <2>1, <2>3 DEF Environment, Cancel, Stop, Crash, Restarted, Exits, ComesBack, IsRemoved,
                      Event, docker
  <2>4. CASE \E r \in Requests : Receive(r)
    BY <2>4 DEF Receive, docker
  <2> QED BY <2>2, <2>3, <2>4 DEF Next
<1> QED BY <1>1, <1>2, RequestedStep, ActionTypes, PTL DEF Spec, OnlyListedTouched
=============================================================================
