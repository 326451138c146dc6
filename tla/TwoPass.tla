------------------------------ MODULE TwoPass ------------------------------
(***************************************************************************)
(* The two passes together: the program runs under libfastpass.so, the     *)
(* offline script writes the file HashValues from its log, and the program *)
(* runs again under libslowpass.so, which reads HashValues and announces   *)
(* the objects it finds there.                                             *)
(*                                                                         *)
(* The program allocates the same objects in the same order in both passes *)
(* and, in the second, one at a time; how an object is announced and       *)
(* profiled is SlowPass.                                                   *)
(***************************************************************************)
EXTENDS FastPass

CONSTANTS Unnamed,         \* call stacks with an address that has no symbol
          VAR_COUNT_TRANS  \* entries of var_count_trans

ASSUME UnnamedAssumption == Unnamed \subseteq Vars
ASSUME CountersAssumption == VAR_COUNT_TRANS \in Nat

VARIABLES pass,                  \* "fast", "slow"
          var_hash_value_table,
          var_count_trans,       \* per line of the table
          var_outfile,           \* name of each announced object: line, number
          announced,             \* indices of the announced objects
          done                   \* objects allocated in the slow pass

slow_vars == <<var_hash_value_table, var_count_trans, var_outfile, announced, done>>

two_pass_vars == <<vars, pass, slow_vars>>

(* The string that is hashed names the functions of the call stack; a frame *)
(* without a symbol has its absolute address, another one in each process.  *)
StringHash(v, p) == IF v \in Unnamed THEN <<v, p>> ELSE <<v>>

(* Mutant: the last line is taken for the end of the file.                  *)
ReadHashValuesButLast(lines) ==
    [i \in 1 .. Len(lines) - 1 |-> StringHash(lines[i].var, "fast")]

ReadHashValues(lines) ==
    [i \in 1 .. Len(lines) |-> StringHash(lines[i].var, "fast")]

(* A step of the fast pass.                                                 *)
FastStep ==
    /\ pass = "fast"
    /\ Next
    /\ UNCHANGED <<pass, slow_vars>>

(* The program ends, the script runs, and the program is started again: the *)
(* constructor reads HashValues.                                            *)
StartSlowPass ==
    /\ pass = "fast" /\ constructed /\ AtRest
    /\ pass' = "slow"
    /\ var_hash_value_table' = ReadHashValues(HashValues(trace_file))
    /\ var_count_trans' = [i \in DOMAIN var_hash_value_table' |-> 0]
    /\ UNCHANGED <<vars, var_outfile, announced, done>>

(* Lines of the table that hold the hash value of the next object.          *)
Lines ==
    {i \in DOMAIN var_hash_value_table :
        var_hash_value_table[i] = StringHash(objects[done + 1].var, "slow")}

(* Mutant: each line of the table stands for one object.                    *)
LineUnused ==
    LET free == {i \in Lines : var_count_trans[i] = 0}
        from == IF free = {} THEN Lines ELSE free
    IN  CHOOSE i \in from : \A j \in from : i <= j

(* The search stops at the first.                                           *)
Line == CHOOSE i \in Lines : \A j \in Lines : i <= j

(* LookIntoHashValue: the object is named after its line and counted.       *)
LookIntoHashValue ==
    /\ pass = "slow" /\ done < Len(objects) /\ Lines # {}
    /\ Line <= VAR_COUNT_TRANS
    /\ var_count_trans' = [var_count_trans EXCEPT ![Line] = @ + 1]
    /\ var_outfile' = Append(var_outfile, [line |-> Line, number |-> var_count_trans'[Line]])
    /\ announced' = Append(announced, done + 1)
    /\ done' = done + 1
    /\ UNCHANGED <<vars, pass, var_hash_value_table>>

(* Beyond var_count_trans the number is whatever the memory there holds.    *)
LookIntoHashValueBeyond ==
    /\ pass = "slow" /\ done < Len(objects) /\ Lines # {}
    /\ Line > VAR_COUNT_TRANS
    /\ \E n \in 0 .. MaxCalls :
          var_outfile' = Append(var_outfile, [line |-> Line, number |-> n])
    /\ announced' = Append(announced, done + 1)
    /\ done' = done + 1
    /\ UNCHANGED <<vars, pass, var_hash_value_table, var_count_trans>>

NotChosen ==
    /\ pass = "slow" /\ done < Len(objects) /\ Lines = {}
    /\ done' = done + 1
    /\ UNCHANGED <<vars, pass, var_hash_value_table, var_count_trans, var_outfile,
                   announced>>

InitTwoPass ==
    /\ Init
    /\ pass = "fast"
    /\ var_hash_value_table = <<>> /\ var_count_trans = <<>>
    /\ var_outfile = <<>> /\ announced = <<>> /\ done = 0

NextTwoPass ==
    \/ FastStep \/ StartSlowPass
    \/ LookIntoHashValue \/ LookIntoHashValueBeyond \/ NotChosen

SpecTwoPass == InitTwoPass /\ [][NextTwoPass]_two_pass_vars

-----------------------------------------------------------------------------
(* When no calls of the fast pass overlapped, the slow pass announces every *)
(* object of every variable with a big object, and no other: hash values    *)
(* survive log, script, file and table, but for call stacks with an address *)
(* that differs from process to process.  Objects that the fast pass lost   *)
(* at its start do not make their variable one with a big object.           *)
HeroObjectsAnnounced ==
    pass = "slow" /\ ~overlapped =>
        \E j \in Losses :
            Range(announced) = {k \in 1 .. done :
                /\ HasBigObject(Kept(j), objects[k].var)
                /\ objects[k].var \notin Unnamed}

(* Whatever the fast pass logged, and however often a variable is listed,   *)
(* the names that the slow pass writes to variable_out-all tell the objects *)
(* apart, and those of one variable share the first half and are numbered   *)
(* in order, as far as var_count_trans reaches.                             *)
NamesTellObjects ==
    \A a, b \in DOMAIN announced :
        /\ a < b
        /\ var_outfile[a].line <= VAR_COUNT_TRANS
        /\ var_outfile[b].line <= VAR_COUNT_TRANS
        => IF objects[announced[a]].var = objects[announced[b]].var
           THEN /\ var_outfile[a].line = var_outfile[b].line
                /\ var_outfile[a].number < var_outfile[b].number
           ELSE var_outfile[a].line # var_outfile[b].line
=============================================================================
