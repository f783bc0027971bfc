------------------------------- MODULE SEDiff -------------------------------
(***************************************************************************)
(* SE-Diff.py: two versions of a program are run with KLEE, and the paths  *)
(* found, known by the hashes of their path conditions, are compared.      *)
(*                                                                         *)
(* The script finds the output of a run by reading the link klee-last, and *)
(* so shares it with whatever else runs KLEE in the same directory; what   *)
(* call() returns for KLEE is never looked at.                             *)
(***************************************************************************)
EXTENDS Naturals, Sequences, SequencesExt

CONSTANTS
    Hashes,     \* md5 sums, numbers for their order
    MaxPaths,   \* bound: .pc files in an output directory
    MaxOthers,  \* bound: other runs of KLEE in the directory
    OtherFiles  \* what such a run finds

ASSUME SEDiffAssumption == Hashes \subseteq Nat /\ MaxPaths \in Nat /\ MaxOthers \in Nat
                           /\ OtherFiles \subseteq Seq(Hashes)

VARIABLES
    outputs,    \* klee-out-N: [of, files], of the program run (0: not ours)
    klee_last,  \* where the link points; 0 when there is none
    pc,         \* where the script is
    prog,       \* which of the two programs it is at
    dir,        \* dir1 and dir2
    dt,         \* dt1 and dt2: hash -> file
    idx,        \* idx_before and idx_after
    lists,      \* l0, l1 and l2
    ok,         \* history: the programs KLEE ran to the end
    raced       \* history: another run of KLEE began between the start of
                \* one of the script's and its look at the link

vars == <<outputs, klee_last, pc, prog, dir, dt, idx, lists, ok, raced>>

Contents == UNION {[1..n -> Hashes] : n \in 0..MaxPaths}
NoDict   == [h \in {} |-> 0]

Init ==
    /\ outputs = <<>> /\ klee_last = 0 /\ pc = "generate" /\ prog = 1 /\ dir = <<0, 0>>
    /\ dt = <<NoDict, NoDict>> /\ idx = <<1, 1>> /\ lists = << <<>>, <<>>, <<>> >>
    /\ ok = {} /\ raced = FALSE

(* KLEE starts: it makes a directory for its output and moves the link.    *)
KleeStart(of, files) ==
    /\ outputs' = Append(outputs, [of |-> of, files |-> files])
    /\ klee_last' = Len(outputs')

(* Somebody else runs KLEE here; one such run may have been before.        *)
OtherKlee ==
    /\ pc \notin {"done", "error"}
    /\ Len(SelectSeq(outputs, LAMBDA o : o.of = 0)) < MaxOthers
    /\ \E files \in OtherFiles : KleeStart(0, files)
    /\ raced' = (raced \/ pc \in {"klee", "readlink"})
    /\ UNCHANGED <<pc, prog, dir, dt, idx, lists, ok>>

(* generate: without bytecode the command line of execute holds a None,    *)
(* and call() raises.                                                      *)
Generate ==
    /\ pc = "generate"
    /\ \E compiled \in BOOLEAN : pc' = IF compiled THEN "execute" ELSE "error"
    /\ UNCHANGED <<outputs, klee_last, prog, dir, dt, idx, lists, ok, raced>>

(* execute: KLEE starts, or fails before it has made a directory.          *)
Execute ==
    /\ pc = "execute"
    /\ \/ KleeStart(prog, <<>>) /\ pc' = "klee"
       \/ UNCHANGED <<outputs, klee_last>> /\ pc' = "readlink"
    /\ UNCHANGED <<prog, dir, dt, idx, lists, ok, raced>>

(* KLEE ends, with all paths or, in an error, those it had found.          *)
KleeEnd ==
    /\ pc = "klee" /\ pc' = "readlink"
    /\ \E files \in Contents, ret \in {0, 1} :
        /\ outputs' = [n \in DOMAIN outputs |-> IF outputs[n].of = prog
                                                THEN [outputs[n] EXCEPT !.files = files] ELSE outputs[n]]
        /\ ok' = IF ret = 0 THEN ok \cup {prog} ELSE ok
    /\ UNCHANGED <<klee_last, prog, dir, dt, idx, lists, raced>>

(* Mutant: the first look at the link is kept for both programs.           *)
Mutant_Readlink ==
    /\ pc = "readlink"
    /\ IF klee_last = 0 THEN pc' = "error" /\ UNCHANGED <<dir, prog>>
       ELSE /\ dir' = IF prog = 1 THEN <<klee_last, klee_last>> ELSE dir
            /\ pc' = IF prog = 1 THEN "generate" ELSE "loadhash"
            /\ prog' = 2
    /\ UNCHANGED <<outputs, klee_last, dt, idx, lists, ok, raced>>

(* os.readlink raises when there is no link.  Then the second program, or  *)
(* the comparison.                                                         *)
Readlink ==
    /\ pc = "readlink"
    /\ IF klee_last = 0 THEN pc' = "error" /\ UNCHANGED <<dir, prog>>
       ELSE /\ dir' = [dir EXCEPT ![prog] = klee_last]
            /\ pc' = IF prog = 1 THEN "generate" ELSE "loadhash"
            /\ prog' = 2
    /\ UNCHANGED <<outputs, klee_last, dt, idx, lists, ok, raced>>

(* The dict of a directory: of the files with one hash, the last.          *)
loadhash(d) ==
    LET files == outputs[d].files
    IN  [h \in Range(files) |->
          CHOOSE i \in DOMAIN files : files[i] = h /\ \A j \in DOMAIN files : files[j] = h => j <= i]

(* md5sum fails when there is no .pc file, and check_output raises.        *)
LoadHash ==
    /\ pc = "loadhash"
    /\ IF \E k \in 1..2 : outputs[dir[k]].files = <<>>
       THEN pc' = "error" /\ dt' = dt
       ELSE pc' = "compare" /\ dt' = [k \in 1..2 |-> loadhash(dir[k])]
    /\ UNCHANGED <<outputs, klee_last, prog, dir, idx, lists, ok, raced>>

(* list(dict.keys()), after its sort().                                    *)
SortedKeys(keys) == CHOOSE q \in SetToSeqs(keys) : \A i, j \in DOMAIN q : i < j => q[i] < q[j]

before == SortedKeys(DOMAIN dt[1])
after  == SortedKeys(DOMAIN dt[2])

(* Mutant: a list ends where the other one does.                           *)
Mutant_Remainder(keys, i) == <<>>

Remainder(keys, i) == SubSeq(keys, i, Len(keys))

Advance(b, a) ==
    idx' = [idx EXCEPT ![1] = IF b <= a THEN @ + 1 ELSE @, ![2] = IF a <= b THEN @ + 1 ELSE @]

(* A round of the loop of compare, and the remainders after it.            *)
Compare ==
    /\ pc = "compare"
    /\ IF idx[1] <= Len(before) /\ idx[2] <= Len(after)
       THEN LET b == before[idx[1]]
                a == after[idx[2]]
            IN  /\ pc' = pc
                /\ Advance(b, a)
                /\ lists' = IF b = a THEN [lists EXCEPT ![1] = Append(@, b)]
                            ELSE IF b < a THEN [lists EXCEPT ![2] = Append(@, b)]
                            ELSE [lists EXCEPT ![3] = Append(@, a)]
       ELSE /\ pc' = "done" /\ idx' = idx
            /\ lists' = [lists EXCEPT ![2] = @ \o Remainder(before, idx[1]),
                                      ![3] = @ \o Remainder(after, idx[2])]
    /\ UNCHANGED <<outputs, klee_last, prog, dir, dt, ok, raced>>

Script == Generate \/ Execute \/ KleeEnd \/ Readlink \/ LoadHash \/ Compare
Next   == Script \/ OtherKlee

Spec == Init /\ [][Next]_vars

-----------------------------------------------------------------------------
(* The hashes a program's own run of KLEE found.                           *)
Found(k) == UNION {Range(outputs[n].files) : n \in {m \in DOMAIN outputs : outputs[m].of = k}}

(* When KLEE ran both programs to the end and nobody else started it in    *)
(* between, the script reports the paths the two have in common and those  *)
(* only one of them has, whatever earlier runs left in the directory.  And *)
(* for a hash on a list, lookup always prints a file that has it.          *)
ReportsDifference ==
    pc = "done" =>
        /\ ok = {1, 2} /\ ~raced =>
             /\ Range(lists[1]) = Found(1) \cap Found(2)
             /\ Range(lists[2]) = Found(1) \ Found(2)
             /\ Range(lists[3]) = Found(2) \ Found(1)
        /\ \A k \in 1..2 : \A h \in Range(lists[1]) \cup Range(lists[k + 1]) :
             h \in DOMAIN dt[k] /\ outputs[dir[k]].files[dt[k][h]] = h

(* Throughout the merge the lists hold what lies before the two indices,   *)
(* every hash once and in order: none is reported twice or on two lists.   *)
MergedSoFar ==
    pc \in {"compare", "done"} =>
        LET Seen(keys, k) == IF pc = "done" THEN Range(keys) ELSE {keys[i] : i \in 1..(idx[k] - 1)}
        IN  /\ Range(lists[1]) \cup Range(lists[2]) = Seen(before, 1)
            /\ Range(lists[1]) \cup Range(lists[3]) = Seen(after, 2)
            /\ Range(lists[2]) \cap Range(after) = {} /\ Range(lists[3]) \cap Range(before) = {}
            /\ \A l \in 1..3 : \A i, j \in DOMAIN lists[l] : i < j => lists[l][i] < lists[l][j]
=============================================================================
