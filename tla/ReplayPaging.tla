----------------------------- MODULE ReplayPaging -----------------------------
(***************************************************************************)
(* The pages of a target's replay list (ListReplayFiles in                 *)
(* internal/runtime/runtime.go): the files that match the search, sorted,  *)
(* are cut into pages.  A client asks for one page after the other while   *)
(* hasMore says so, and the list may change between two of its requests.    *)
(***************************************************************************)
EXTENDS Integers, FiniteSets

CONSTANTS
  Paths,         \* relative paths, as their place in the alphabet
  NameOf,        \* the place of each file's name
  Matching,      \* the files that match the search
  Times,         \* modification times; 0 stands for no file
  Sizes,         \* page sizes a client walks with
  Numbers,       \* numbers asked for as page and page size
  DefaultSize, MaxSize,   \* replayListPageSizeDefault and ..Max
  Half,          \* the integers are -Half .. Half - 1
  Exponent,      \* from here on a JSON number is printed with an exponent
  MaxEvents      \* bound: changes of the list

ASSUME PagingAssumption ==
  /\ Paths \subseteq Nat
  /\ IsFiniteSet(Paths) /\ Cardinality(Paths) < Half
  /\ NameOf \in [Paths -> Nat]
  /\ Matching \subseteq Paths
  /\ Times \subseteq Nat \ {0}
  /\ Sizes \subseteq Nat \ {0}
  /\ Numbers \subseteq Int
  /\ {DefaultSize, MaxSize, Half, Exponent} \subseteq Nat \ {0}
  /\ DefaultSize <= MaxSize /\ MaxSize < Half
  /\ MaxEvents \in Nat

Sorts == {"updatedAtDesc", "updatedAtAsc", "nameAsc", "nameDesc", "unknown"}

(* A number in the payload is a JSON number or a string. *)
Argument == [form : {"number", "text"}, value : Int]

NoAnswer == [start |-> 0, end |-> 0, total |-> 0, page |-> 1, size |-> 1, more |-> FALSE]

VARIABLES
  time,          \* the list that is served: each file's modification time
  pc,            \* of the client: idle, walking, done; or the agent has panicked
  sort, size,    \* that the client asks for
  page,          \* that it asks for next
  seen,          \* files it has been shown
  answer,        \* the last answer
  \* history
  steady,        \* files that have kept their place or moved behind it
  closedUp,      \* a file has left the pages that were already sent
  events

client  == <<pc, sort, size, page, seen, answer>>
history == <<steady, closedUp>>
vars    == <<time, client, history, events>>

TypeOK ==
  /\ time \in [Paths -> Times \cup {0}]
  /\ pc \in {"idle", "walking", "done", "panicked"}
  /\ sort \in Sorts
  /\ size \in Sizes
  /\ page \in Nat \ {0}
  /\ seen \subseteq Matching
  /\ answer \in [start : Int, end : Int, total : Nat, page : Nat \ {0},
                 size : Nat \ {0}, more : BOOLEAN]
  /\ steady \subseteq Matching
  /\ closedUp \in BOOLEAN
  /\ events \in Nat

Listed == {p \in Matching : time[p] # 0}

Init ==
  /\ time \in [Paths -> Times \cup {0}]
  /\ pc = "idle"
  /\ sort \in Sorts
  /\ size \in Sizes
  /\ page = 1
  /\ seen = {}
  /\ answer = NoAnswer
  /\ steady = {}
  /\ closedUp = FALSE
  /\ events = 0
-----------------------------------------------------------------------------
(* requiredInt prints the value and parses what it has printed; 1e+06 is   *)
(* not an integer for strconv.Atoi.                                        *)
Parsed(v) == IF v.form = "number" /\ (v.value >= Exponent \/ v.value <= -Exponent)
             THEN 0 ELSE v.value

ClampedPage(v) == IF v <= 0 THEN 1 ELSE v

ClampedSize(v) == IF v <= 0 THEN DefaultSize ELSE IF v > MaxSize THEN MaxSize ELSE v

FirstKey(a, b) == CASE sort = "nameAsc"      -> NameOf[a] < NameOf[b]
                    [] sort = "nameDesc"     -> NameOf[a] > NameOf[b]
                    [] sort = "updatedAtAsc" -> time[a] < time[b]
                    [] OTHER                 -> time[a] > time[b]

(* sortReplayFileEntries: files that are equal by the key go by their path. *)
Before(a, b) == FirstKey(a, b) \/ (~FirstKey(b, a) /\ a < b)

(* slices.SortFunc: any order in which nothing stands after a greater one. *)
Orders == {o \in [1..Cardinality(Listed) -> Listed] :
             \A i, j \in DOMAIN o : i < j => o[i] # o[j] /\ ~Before(o[j], o[i])}

Wrapped(x) == ((x + Half) % (2 * Half)) - Half

AtMost(x, bound) == IF x > bound THEN bound ELSE x

Start(p, n, total) == AtMost(Wrapped((p - 1) * n), total)

Unclamped(p, n, total) == Wrapped(Start(p, n, total) + n)

End(p, n, total) == AtMost(Wrapped(Start(p, n, total) + n), total)

Slice(p, n, total) == [start |-> Start(p, n, total), end |-> End(p, n, total),
                       total |-> total, page |-> p, size |-> n,
                       more |-> End(p, n, total) < total]

(* Go's slice expression panics outside of these bounds. *)
InBounds(s) == 0 <= s.start /\ s.start <= s.end /\ s.end <= s.total

TotalPages(n, total) == IF total > 0 THEN (total + n - 1) \div n ELSE 0
-----------------------------------------------------------------------------
(* One request for any page. *)
Ask(p, n) ==
  /\ pc = "idle"
  /\ LET s == Slice(ClampedPage(Parsed(p)), ClampedSize(Parsed(n)), Cardinality(Listed))
     IN  /\ answer' = s
         /\ pc' = IF InBounds(s) THEN pc ELSE "panicked"
  /\ UNCHANGED <<time, sort, size, page, seen, history, events>>

(* fetchAll: one page of everything. *)
AskAll(n) ==
  /\ pc = "idle"
  /\ LET total == Cardinality(Listed)
     IN  answer' = [start |-> 0, end |-> total, total |-> total, page |-> 1, more |-> FALSE,
                    size |-> IF total > 0 THEN total ELSE ClampedSize(Parsed(n))]
  /\ UNCHANGED <<time, pc, sort, size, page, seen, history, events>>

BeginWalk ==
  /\ pc = "idle"
  /\ pc' = "walking"
  /\ answer' = NoAnswer
  /\ steady' = Listed
  /\ UNCHANGED <<time, sort, size, page, seen, closedUp, events>>

NextPage ==
  /\ pc = "walking"
  /\ \E o \in Orders :
       LET s == Slice(page, ClampedSize(size), Cardinality(Listed))
       IN  /\ answer' = s
           /\ pc' = IF ~InBounds(s) THEN "panicked" ELSE IF s.more THEN pc ELSE "done"
           /\ seen' = seen \cup {o[i] : i \in DOMAIN o \cap (s.start + 1)..s.end}
           /\ page' = IF s.more THEN page + 1 ELSE page
  /\ UNCHANGED <<time, sort, size, history, events>>
-----------------------------------------------------------------------------
(* The list that is served has changed.  A file arrives with any time, one *)
(* that is written again is as new as the newest.                          *)
Rank(p) == Cardinality({q \in Listed : q = p \/ Before(q, p)})

Sent(p) == p \in Listed /\ Rank(p) <= (page - 1) * ClampedSize(size)

Changes == /\ pc = "walking"
           /\ events < MaxEvents
           /\ events' = events + 1
           /\ UNCHANGED client

Adds(p) ==
  /\ Changes
  /\ time[p] = 0
  /\ \E t \in Times : time' = [time EXCEPT ![p] = t]
  /\ UNCHANGED history

Removes(p) ==
  /\ Changes
  /\ time[p] # 0
  /\ time' = [time EXCEPT ![p] = 0]
  /\ steady' = steady \ {p}
  /\ closedUp' = (closedUp \/ Sent(p))

Touches(p) ==
  /\ Changes
  /\ time[p] # 0
  /\ \E t \in Times : /\ \A q \in Paths : time[q] <= t
                      /\ time' = [time EXCEPT ![p] = t]
  /\ steady' = IF sort \in {"updatedAtDesc", "unknown"} THEN steady \ {p} ELSE steady
  /\ closedUp' = (closedUp \/ (sort = "updatedAtAsc" /\ Sent(p)))

Next == \/ \E f \in {"number", "text"}, p, n \in Numbers :
             Ask([form |-> f, value |-> p], [form |-> f, value |-> n])
        \/ \E n \in Numbers : AskAll([form |-> "number", value |-> n])
        \/ BeginWalk
        \/ NextPage
        \/ \E p \in Paths : Adds(p) \/ Removes(p) \/ Touches(p)

Spec == Init /\ [][Next]_vars
-----------------------------------------------------------------------------
(* A client that has walked to the last page has been shown every file     *)
(* that was there when it began and has stayed, whatever arrived meanwhile *)
(* - unless a file left the pages already sent, so that the rest closed up *)
(* behind it, or the file itself was written again and moved to the front. *)
NoneSkipped == pc = "done" /\ ~closedUp => steady \subseteq seen

(* A page is a part of the list wherever the page number points; only one   *)
(* that ends beyond the integers may cut elsewhere, and then panics.        *)
(* hasMore and totalPages, which are counted apart, agree on the last page. *)
Fits(p, n) == (p - 1) * n + n < Half

PageInBounds ==
  /\ pc # "panicked" => InBounds(answer)
  /\ Fits(answer.page, answer.size) =>
       /\ pc # "panicked"
       /\ answer.more <=> answer.page < TotalPages(answer.size, answer.total)

PagingInv == TypeOK /\ PageInBounds
=============================================================================
