---------------------------- MODULE ThriftStruct ----------------------------
(***************************************************************************)
(* What the code the Thrift compiler generates does with a struct (all of  *)
(* it alike, for every struct of thrift-services/*.thrift): a struct is the*)
(* sequence of its fields, a field's id is its place in it, and a message  *)
(* holds a set of fields, each with its id and its type.  A value is a     *)
(* record of the fields that were set; "" stands for what a constructor    *)
(* puts into a field, whatever its type.                                   *)
(***************************************************************************)
EXTENDS Naturals, Sequences

Field(type, name)    == [type |-> type, name |-> name, optional |-> FALSE]
Optional(type, name) == [type |-> type, name |-> name, optional |-> TRUE]
Strings(names) == [i \in DOMAIN names |-> Field("string", names[i])]

Names(S) == {S[i].name : i \in DOMAIN S}
Get(value, name) == IF name \in DOMAIN value THEN value[name] ELSE ""

\* X::write: every field, but an optional one only when it was set.
Write(S, value) ==
  {[id |-> i, type |-> S[i].type, value |-> Get(value, S[i].name)] :
     i \in {i \in DOMAIN S : S[i].optional => S[i].name \in DOMAIN value}}

\* X::read: a field with an id or a type that is not the struct's is skipped,
\* and what does not come keeps its default.
Read(S, fields) ==
  [name \in Names(S) |->
     IF \E f \in fields, i \in DOMAIN S :
          f.id = i /\ f.type = S[i].type /\ S[i].name = name
     THEN (CHOOSE f \in fields : \E i \in DOMAIN S :
             f.id = i /\ f.type = S[i].type /\ S[i].name = name).value
     ELSE ""]

\* M_args: the struct the method takes, or nothing.
NoArgs == <<>>
Args(T) == <<T>>
WriteArgs(A, input) ==
  {[id |-> i, type |-> "struct", value |-> Write(A[i], input)] : i \in DOMAIN A}
ReadArgs(A, fields) ==
  IF \E f \in fields : A # NoArgs /\ f.id = 1 /\ f.type = "struct"
  THEN Read(A[1], (CHOOSE f \in fields : f.id = 1).value)
  ELSE [name \in UNION {Names(A[i]) : i \in DOMAIN A} |-> ""]

\* M_result: the answer under id 0, or else the exception under id 1.
OperationFailed == <<Field("i32", "code"), Field("string", "reason")>>
Result(type) == [success |-> type]
WriteResult(R, outcome) ==
  IF outcome = "err"
  THEN {[id |-> 1, type |-> "struct", value |-> Write(OperationFailed, <<>>)]}
  ELSE IF R = Result("void") THEN {}
  ELSE {[id |-> 0, type |-> R.success, value |-> outcome]}

\* M_presult::read and what recv_M makes of it: a result that holds neither the
\* answer nor the exception is missing, but ping's has nothing to hold.
ReadResult(R, fields) ==
  IF R = Result("void") THEN "void"
  ELSE IF \E f \in fields : f.id = 0 /\ f.type = R.success
  THEN (CHOOSE f \in fields : f.id = 0 /\ f.type = R.success).value
  ELSE IF \E f \in fields : f.id = 1 /\ f.type = "struct" THEN "err"
  ELSE "missing"

Method(args, result) == [args |-> args, result |-> result]
=============================================================================
