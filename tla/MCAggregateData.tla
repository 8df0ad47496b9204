-------------------------- MODULE MCAggregateData --------------------------
(***************************************************************************)
(* Checks the join of AggregateData against the join that spec section    *)
(* 4.6 describes, over every receiver type list of up to MaxWant kinds and *)
(* every pool of up to MaxData data that can arrive at an aggregate, in    *)
(* every arrival order.  Data arrive one at a time (the children of the    *)
(* aggregate resolving in some order); the receiver may fire at any point. *)
(***************************************************************************)
EXTENDS Naturals, Sequences, FiniteSets, AggregateData

CONSTANTS Kinds, MaxWant, MaxData

ASSUME MaxWant \in 1..3 /\ MaxData \in 1..4

VARIABLES want, pool, fired, result

vars == <<want, pool, fired, result>>

Wants == UNION {[1..n -> Kinds] : n \in 1..MaxWant}

Init ==
    /\ want \in Wants
    /\ pool = <<>>
    /\ fired = FALSE
    /\ result = Err(<<>>)

\* A child of the aggregate resolves to a datum of kind k.
Arrive(k) ==
    /\ Len(pool) < MaxData
    /\ pool' = Append(pool, [kind |-> k, id |-> Len(pool) + 1])
    /\ fired' = FALSE
    /\ result' = Err(<<>>)
    /\ UNCHANGED want

\* The aggregate's queue is empty: do_aggregate joins the collected data.
Fire ==
    /\ ~fired
    /\ fired' = TRUE
    /\ result' = do_aggregate(want, pool)
    /\ UNCHANGED <<want, pool>>

Next == (\E k \in Kinds : Arrive(k)) \/ Fire

Spec == Init /\ [][Next]_vars

-----------------------------------------------------------------------------
(***************************************************************************)
(* The reference join of spec 4.6, stated without a scan: the j-th wanted  *)
(* kind binds the datum of that kind whose rank among the data of its kind *)
(* equals the rank of j among the wanted entries of that kind (first come, *)
(* first bound); it is satisfiable when every kind has enough data.        *)
(***************************************************************************)
KindRank(s, j) == Cardinality({i \in 1..j : s[i] = s[j]})
DataRank(s, j) == Cardinality({i \in 1..j : s[i].kind = s[j].kind})
CountKind(s, k) == Cardinality({i \in DOMAIN s : s[i].kind = k})

Satisfiable(ks, ds) == \A j \in DOMAIN ks : CountKind(ds, ks[j]) >= KindRank(ks, j)

SpecBound(ks, ds) ==
    [j \in DOMAIN ks |->
        ds[CHOOSE i \in DOMAIN ds : ds[i].kind = ks[j] /\ DataRank(ds, i) = KindRank(ks, j)]]

(***************************************************************************)
(* try_from_iter succeeds exactly when the collected data are, as a bag of *)
(* kinds, the receiver's type list (no missing and no extra datum,         *)
(* whatever the arrival order), and then binds each wanted kind to the     *)
(* first unbound datum of that kind, as the reference join does.           *)
(***************************************************************************)
JoinIsExactFifoMatch ==
    fired =>
        /\ result.ok <=> (Satisfiable(want, pool) /\ Len(pool) = Len(want))
        /\ result.ok => result.val = SpecBound(want, pool)

=============================================================================
