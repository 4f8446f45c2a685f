------------------------------- MODULE Listing -------------------------------
(***************************************************************************)
(* What the batch agents do with the files they find: Python's sorted(),   *)
(* the slices of a list (_chunk_files of package_audit_runtime.py,          *)
(* _split_batches of orchestrator_agent.py), and the sums of lengths in     *)
(* their reports.  Files are numbered in the order of their names.         *)
(***************************************************************************)
EXTENDS Integers, FiniteSets, Sequences

Sorted(S) ==
    CHOOSE s \in [1 .. Cardinality(S) -> S] :
        \A i, j \in 1 .. Cardinality(S) : i < j => s[i] < s[j]

(* [files[i : i + size] for i in range(0, len(files), size)], size > 0     *)
Slices(files, size) ==
    [k \in 1 .. ((Len(files) + size - 1) \div size) |->
        SubSeq(files, (k - 1) * size + 1,
               IF k * size < Len(files) THEN k * size ELSE Len(files))]

(* Every place in every list of f: their number is the sum of the lengths. *)
Places(f) == UNION {{x} \X DOMAIN f[x] : x \in DOMAIN f}
TotalLen(f) == Cardinality(Places(f))
=============================================================================
