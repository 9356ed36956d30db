------------------------------ MODULE AuditLog ------------------------------
(***************************************************************************)
(* The audit log (internal/audit/log.go): Record numbers an entry under    *)
(* the log's mutex, with a time that its caller read before; List sorts    *)
(* the kept entries by time, those of one time by their id, a string that  *)
(* ends in the number written out.  Actor, action and resource are what a  *)
(* filter compares: one label stands for them.                             *)
(***************************************************************************)
EXTENDS Integers, Sequences, FiniteSets

CONSTANTS
  Labels,   \* labels of entries
  Keep,     \* the log keeps no more entries than this
  Base      \* numbers are written to this base (10)

(* at is the reading of the clock that the entry shows; read is history:   *)
(* when, on a clock that nobody sets, that reading was taken.              *)
Entry == [number: Nat, label: Labels, at: Nat, read: Nat]

ASSUME LogAssumption == Keep \in Nat \ {0} /\ Base \in Nat \ {0, 1}

VARIABLES
  number,  \* the last entry's number (`sequence`)
  entries  \* the kept entries, in the order of their numbers

log == <<number, entries>>

FaultNewest(list) == IF Len(list) > Keep THEN SubSeq(list, 1, Keep) ELSE list

Newest(list) == IF Len(list) > Keep THEN SubSeq(list, Len(list) - Keep + 1, Len(list)) ELSE list

Record(label, at, read) ==
  /\ number' = number + 1
  /\ entries' = Newest(Append(entries, [number |-> number + 1, label |-> label,
                                        at |-> at, read |-> read]))
-----------------------------------------------------------------------------
(* How numbers compare once they are written out: digit by digit from the  *)
(* first, as fractions do, and the shorter one first if that is all.       *)
Power[k \in Nat] == IF k = 0 THEN 1 ELSE Base * Power[k - 1]

Digits(n) == CHOOSE k \in 1..n : Power[k - 1] <= n /\ n < Power[k]

Written(m, n) ==
  LET k == Digits(m)
      l == Digits(n)
  IN m * Power[l] < n * Power[k] \/ (m * Power[l] = n * Power[k] /\ k < l)

FaultNewer(e, f) == Written(f.number, e.number)

(* The order of a listing.                                                 *)
Newer(e, f) == e.at > f.at \/ (e.at = f.at /\ Written(f.number, e.number))

Found(labels) == {e \in {entries[i] : i \in DOMAIN entries} : e.label \in labels}

(* How many of the entries that were found a sorted listing shows before e. *)
Rank(e, found) == Cardinality({f \in found \ {e} : Newer(f, e)})

(* The entries with one of the labels, sorted, no more than limit.         *)
List(labels, limit) ==
  LET found == Found(labels)
      n     == Cardinality(found)
  IN [i \in 1..(IF limit > 0 /\ n > limit THEN limit ELSE n) |->
        CHOOSE e \in found : Rank(e, found) = i - 1]
=============================================================================
