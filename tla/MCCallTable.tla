----------------------------- MODULE MCCallTable -----------------------------
(***************************************************************************)
(* Instances of CallTable for TLC: two threads and five call stacks.       *)
(***************************************************************************)
EXTENDS CallTableInv, TLC

CONSTANTS s1, s2, s3, s4, s5, t1, t2

MCThreads == {t1, t2}

MCSites == {s1, s2, s3, s4, s5}

MCEarlySites == {s1}

(* All have one home slot, the last of a table of three, so every probe     *)
(* collides and wraps around.  The hashes of s1 and s5 differ, but not in   *)
(* their low four bits; with s4 the table is too small.                     *)
MCStringHash == s1 :> 2 @@ s2 :> 5 @@ s3 :> 8 @@ s4 :> 11 @@ s5 :> 18
=============================================================================
