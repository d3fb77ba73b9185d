-------------------------- MODULE TileServiceLoop --------------------------
(***************************************************************************)
(* Controller::nextJob written as the loop of the source, statement by     *)
(* statement, to check the closed form TileService gives it: TileService   *)
(* must be free of recursion so that theorems can be stated about it.      *)
(***************************************************************************)
EXTENDS TileServiceProps, SequencesExt

\* requests_ as a sequence.
RequestList == SetToSortSeq(requests, LAMBDA q, r : <<q, r>> \in ahead)

\* One pass of the inner for loop, from the i-th request of the list on. Its
\* state s is what the loop changes: the list, nextTileIndex_, the results it
\* hands in, the job it found and cachedTilesServed.
RECURSIVE PassFrom(_, _, _)
PassFrom(w, s, i) ==
  IF i > Len(s.list) THEN s
  ELSE LET r == s.list[i]
           p == s.next[r] + 1
       IN  IF LayerOf[r] \notin Provides[SourceOf[w]] \/ p > Size(r)
           THEN PassFrom(w, s, i + 1)
           ELSE IF KeyOf(r, p) \in cached
           THEN PassFrom(w, [s EXCEPT !.next[r] = p, !.got[r] = @ \cup {p},
                                      !.served = TRUE], i + 1)
           ELSE IF KeyOf(r, p) \in jobsInProgress
           THEN PassFrom(w, s, i + 1)
           ELSE [s EXCEPT !.next[r] = p, !.found = <<r, p>>,
                          !.list = Append(RemoveAt(@, i), r)]

\* The do-while loop around it.
RECURSIVE Passes(_, _)
Passes(w, s) ==
  LET t == PassFrom(w, [s EXCEPT !.served = FALSE], 1)
  IN  IF t.served /\ t.found = NoJob THEN Passes(w, t) ELSE t

\* The loop and the clean-up of the list that follows it.
NextJobLoop(w) ==
  LET end == Passes(w, [list |-> RequestList, next |-> nextTileIndex,
                        got |-> [r \in Requests |-> {}], found |-> NoJob,
                        served |-> FALSE])
  IN  [end EXCEPT !.list = SelectSeq(@, LAMBDA r : end.next[r] # Size(r))]

\* Whenever a worker evaluates its predicate, the closed form of TileService
\* takes the same job, serves the same cached tiles, moves every request as
\* far and leaves the list in the same order as the loop of the source.
ClosedFormIsTheLoop ==
  [][\A w \in Workers : pc[w] = "check" /\ pc'[w] \in {"taken", "parking"} =>
       LET end == NextJobLoop(w)
       IN  /\ job'[w] = end.found
           /\ nextTileIndex' = end.next
           /\ \A r \in Requests : delivered'[r] = delivered[r] \cup end.got[r]
           /\ RequestList' = end.list]_vars
=============================================================================
