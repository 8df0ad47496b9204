--------------------------- MODULE AggregateData ---------------------------
(***************************************************************************)
(* The typed aggregation join of voyager/src/queue/aggregate_data.rs.      *)
(*                                                                         *)
(* An aggregate receiver declares an ordered list of data kinds (the       *)
(* frunk HList of its UseAggregate::AggregatedData); do_aggregate turns    *)
(* the VecDeque of collected data into that HList with                     *)
(* HListTryFromIterator::try_from_iter and panics when it cannot.          *)
(*                                                                         *)
(* A datum is a record whose field kind is its enum variant; T::try_from   *)
(* succeeds exactly on the data of kind T.  Other fields (an id, a height) *)
(* are carried along unchanged.                                            *)
(***************************************************************************)
EXTENDS Naturals, Sequences, SequencesExt

\* The Result of try_from_iter: Ok(hlist) or Err(vec).
Ok(v)  == [ok |-> TRUE, val |-> v]
Err(v) == [ok |-> FALSE, val |-> v]

\* Mutant of pluck: on Break the data after the match are dropped
\* (new_vec returned without new_vec.extend(vec)).
pluck_DropRest(T, vec) ==
    LET i == SelectInSeq(vec, LAMBDA d : d.kind = T)
    IN  IF i = 0
        THEN [brk |-> FALSE, vec |-> vec]
        ELSE [brk |-> TRUE, vec |-> SubSeq(vec, 1, i - 1), t |-> vec[i]]

(***************************************************************************)
(* pluck::<T, U>(vec): pop data off the front until one converts to T;     *)
(* Break((skipped ++ rest, t)) when one does, Continue(all skipped) when   *)
(* none does.  The skipped data keep their order, so the result is vec     *)
(* with its first datum of kind T removed.                                 *)
(***************************************************************************)
pluck(T, vec) ==
    LET i == SelectInSeq(vec, LAMBDA d : d.kind = T)
    IN  IF i = 0
        THEN [brk |-> FALSE, vec |-> vec]
        ELSE [brk |-> TRUE, vec |-> RemoveAt(vec, i), t |-> vec[i]]

(***************************************************************************)
(* try_from_iter for HCons<T, Tail> (pluck T, then the tail on what is     *)
(* left, propagating the tail's Err with ?) and for HNil (Ok only when     *)
(* nothing is left over).                                                  *)
(***************************************************************************)
RECURSIVE try_from_iter(_, _)
try_from_iter(kinds, vec) ==
    IF kinds = <<>>
    THEN IF vec = <<>> THEN Ok(<<>>) ELSE Err(vec)
    ELSE LET p == pluck(Head(kinds), vec)
         IN  IF ~p.brk
             THEN Err(p.vec)
             ELSE LET tail == try_from_iter(Tail(kinds), p.vec)
                  IN  IF tail.ok THEN Ok(<<p.t>> \o tail.val) ELSE tail

(***************************************************************************)
(* do_aggregate: the join; an Err is the panic "could not aggregate data   *)
(* into T", which the caller sees as a result with ok = FALSE.             *)
(***************************************************************************)
do_aggregate(kinds, data) == try_from_iter(kinds, data)

=============================================================================
