----------------------------- MODULE EnvProofs -----------------------------
(***************************************************************************)
(* Proofs about Env, for any names, values and depth of the stack.         *)
(*                                                                         *)
(* Every operation on a variable writes one binding, so that most of the   *)
(* argument is about one such write: Writes(i, n, var) says which ones     *)
(* there are, and the lemma Writing that each operation is one of them,    *)
(* except for coproc, whose write of the global scope is CoprocWrite.      *)
(***************************************************************************)
EXTENDS Env, SequenceTheorems, TLAPS

(* One binding is written: a readonly one stays readonly, and only a local *)
(* declaration writes below another binding of the name.                   *)
Writes(i, n, var) ==
  /\ i \in DOMAIN scopes
  /\ n \in Name
  /\ var \in Variable
  /\ Put(i, n, var)
  /\ Here(i, n).readonly => var.readonly
  /\ var.readonly => var.kind # "absent"
  /\ \A j \in i + 1 .. Len(scopes) :
       Bound(j, n) => TopOf(i, "Local") /\ scopes[j].type = "Command"

(* Only what is there is readonly. *)
Present == \A i \in DOMAIN scopes, n \in Name :
             Here(i, n).readonly => Bound(i, n)

(* What the prefix has assigned is the visible binding, and exported. *)
PrefixSeen ==
  phase \in {"prefix", "command"} =>
    \A n \in Name : prefix[n] # Nothing =>
      \E i \in DOMAIN scopes : /\ Finds(i, n)
                              /\ Here(i, n).exported
                              /\ Here(i, n).kind = "set"
                              /\ Here(i, n).value = prefix[n]

---------------------------------------------------------------------------
(* Variables stay variables *)

(* An assignment gives a variable that is set, and keeps its attributes. *)
LEMMA AssignedVariable ==
  ASSUME NEW var \in Variable, NEW v \in Value
  PROVE  /\ Assigned(var, v) \in Variable
         /\ Assigned(var, v).readonly = var.readonly
         /\ Assigned(var, v).exported = var.exported
         /\ Assigned(var, v).kind = "set"
         /\ Assigned(var, v).value = v
  BY DEF Assigned, Variable, Kinds

(* Exporting changes nothing else. *)
LEMMA ExportedVariable ==
  ASSUME NEW var \in Variable, NEW on \in BOOLEAN
  PROVE  /\ Exporting(var, on) \in Variable
         /\ Exporting(var, on).readonly = var.readonly
         /\ Exporting(var, on).exported = on
         /\ Exporting(var, on).kind = var.kind
         /\ Exporting(var, on).value = var.value
  BY DEF Exporting, Variable

(* A new variable is one, and not readonly. *)
LEMMA NewVariable ==
  ASSUME NEW kind \in Kinds
  PROVE  New(kind) \in Variable /\ ~New(kind).readonly /\ New(kind).kind = kind
  BY DEF New, Variable

(* A declaration gives a variable, and keeps a readonly one readonly. *)
LEMMA DeclareOps ==
  ASSUME NEW verb, NEW q \in Request, NEW v \in Value, NEW var \in Variable,
         allexport \in BOOLEAN
  PROVE  /\ Redeclared(verb, q, var, v) \in Variable
         /\ var.readonly => Redeclared(verb, q, var, v).readonly
         /\ var.kind # "absent" => Redeclared(verb, q, var, v).kind # "absent"
         /\ Declared(verb, q, v) \in Variable
         /\ Declared(verb, q, v).kind # "absent"
<1> DEFINE pre == IF q.array /\ var.kind = "unset" THEN Assigned(var, v) ELSE var
           before == Prepared(q, var, v)
<1>1. /\ pre \in Variable /\ pre.readonly = var.readonly
      /\ var.kind # "absent" => pre.kind # "absent"
  BY AssignedVariable
<1>2. Wants(q, var) \in BOOLEAN
  BY DEF Wants, Variable
<1>3. /\ before \in Variable /\ before.readonly = var.readonly
      /\ var.kind # "absent" => before.kind # "absent"
  <2> HIDE DEF pre
  <2> before = Exporting(pre, Wants(q, var))
    BY DEF Prepared, pre
  <2> DEFINE w == Wants(q, var)
  <2> HIDE DEF w
  <2> w \in BOOLEAN
    BY <1>2 DEF w
  <2> before = Exporting(pre, w)
    BY DEF w
  <2> QED  BY <1>1 DEF Exporting, Variable
<1> DEFINE after == IF q.value = "none" THEN before ELSE Assigned(before, v)
           ro == q.readonly \/ verb = "readonly"
<1>4. after \in Variable /\ after.readonly = before.readonly
      /\ (before.kind # "absent" => after.kind # "absent")
  <2> HIDE DEF before
  <2> QED  BY <1>3, AssignedVariable
<1>5. Redeclared(verb, q, var, v) =
        IF q.value # "none" /\ ~Assignable(before) THEN before
        ELSE [after EXCEPT !.readonly = @ \/ ro]
  BY DEF Redeclared
<1>6. ro \in BOOLEAN
  BY DEF Request
<1>7. /\ Redeclared(verb, q, var, v) \in Variable
      /\ var.readonly => Redeclared(verb, q, var, v).readonly
      /\ var.kind # "absent" => Redeclared(verb, q, var, v).kind # "absent"
  <2> HIDE DEF before, after, ro
  <2> QED  BY <1>3, <1>4, <1>5, <1>6 DEF Variable
<1>8. Declared(verb, q, v) \in Variable /\ Declared(verb, q, v).kind # "absent"
  <2> DEFINE bare == IF q.value = "none" THEN New("unset")
                     ELSE Assigned(New("unset"), v)
             ex == \/ q.export = "on"
                   \/ allexport /\ ~q.array /\ q.value # "array"
  <2>1. bare \in Variable /\ bare.kind # "absent"
    BY NewVariable, AssignedVariable DEF Kinds
  <2>2. ex \in BOOLEAN
    BY DEF Request
  <2>3. Declared(verb, q, v) = [bare EXCEPT !.exported = ex, !.readonly = ro]
    BY DEF Declared
  <2> HIDE DEF bare, ex, ro
  <2> QED  BY <2>1, <2>2, <2>3, <1>6 DEF Variable
<1> QED  BY <1>7, <1>8

---------------------------------------------------------------------------
(* One write *)

(* A write leaves the shape of the stack and every other binding alone. *)
LEMMA WriteEffect ==
  ASSUME scopes \in Seq(Scope), NEW i \in DOMAIN scopes, NEW n \in Name,
         NEW var \in Variable, Put(i, n, var)
  PROVE  /\ scopes' \in Seq(Scope)
         /\ Len(scopes') = Len(scopes)
         /\ \A j \in DOMAIN scopes : scopes'[j].type = scopes[j].type
         /\ \A j \in DOMAIN scopes, m \in Name :
              scopes'[j].map[m] = IF j = i /\ m = n THEN var ELSE Here(j, m)
<1> USE DEF Put, Here
<1>1. /\ i \in 1 .. Len(scopes) /\ scopes[i] \in Scope
      /\ DOMAIN scopes = 1 .. Len(scopes) /\ Len(scopes) \in Nat
  OBVIOUS
<1> DEFINE s == [scopes[i] EXCEPT !.map[n] = var]
<1>2. s \in Scope /\ s.type = scopes[i].type
      /\ \A m \in Name : s.map[m] = IF m = n THEN var ELSE scopes[i].map[m]
  BY <1>1 DEF Scope
<1>3. scopes' = [scopes EXCEPT ![i] = s]
  OBVIOUS
<1> HIDE DEF s
<1>4. scopes' \in Seq(Scope) /\ Len(scopes') = Len(scopes)
  BY <1>1, <1>2, <1>3
<1>5. \A j \in DOMAIN scopes : scopes'[j] = IF j = i THEN s ELSE scopes[j]
  BY <1>3
<1> QED  BY <1>2, <1>4, <1>5

(* Finding a binding and writing what the lemmas above allow is a write. *)
LEMMA FoundWrite ==
  ASSUME NEW i, NEW n \in Name, NEW var \in Variable,
         Finds(i, n) \/ FindsLocal(i, n), Put(i, n, var),
         TypeOK,
         Here(i, n).readonly => var.readonly,
         var.readonly => var.kind # "absent",
         FindsLocal(i, n) =>
           \A j \in i + 1 .. Len(scopes) : scopes[j].type = "Command"
  PROVE  Writes(i, n, var)
  BY DEF Writes, Finds, FindsLocal, TopOf

(* The types of the scopes, and the variables in them. *)
LEMMA Stack ==
  ASSUME TypeOK
  PROVE  /\ Len(scopes) \in Nat \ {0}
         /\ DOMAIN scopes = 1 .. Len(scopes)
         /\ \A i \in DOMAIN scopes : /\ scopes[i] \in Scope
                                     /\ scopes[i].type \in ScopeTypes
                                     /\ scopes[i].type = "Global" <=> i = 1
         /\ \A i \in DOMAIN scopes, n \in Name : Here(i, n) \in Variable
<1>1. Len(scopes) \in Nat \ {0} /\ DOMAIN scopes = 1 .. Len(scopes)
  BY DEF TypeOK
<1>2. ASSUME NEW i \in DOMAIN scopes
      PROVE  scopes[i] \in Scope
  BY <1>1, <1>2 DEF TypeOK
<1>3. \A i \in DOMAIN scopes : scopes[i].type = "Global" <=> i = 1
  BY Zenon DEF TypeOK
<1>4. ASSUME NEW i \in DOMAIN scopes
      PROVE  scopes[i].type \in ScopeTypes /\ scopes[i].map \in [Name -> Variable]
  BY <1>2, <1>4 DEF Scope
<1>5. ASSUME NEW i \in DOMAIN scopes, NEW n \in Name
      PROVE  Here(i, n) \in Variable
  BY <1>4, <1>5 DEF Here
<1> QED  BY <1>1, <1>2, <1>3, <1>4, <1>5

(* What lies above the innermost Local scope is a Command scope. *)
LEMMA AboveLocal ==
  ASSUME TypeOK, NEW i, TopOf(i, "Local")
  PROVE  \A j \in i + 1 .. Len(scopes) : scopes[j].type = "Command"
<1> SUFFICES ASSUME NEW j \in i + 1 .. Len(scopes)
             PROVE  scopes[j].type = "Command"
  OBVIOUS
<1>1. i \in 1 .. Len(scopes) /\ j \in DOMAIN scopes /\ j # 1
  BY Stack DEF TopOf
<1>2. scopes[j].type # "Local"
  BY DEF TopOf
<1> QED  BY <1>1, <1>2, Stack DEF ScopeTypes

(* Adding a variable where the name is missing is a write. *)
LEMMA AddWrite ==
  ASSUME TypeOK, Present, NEW n \in Name, NEW var \in Variable,
         var.readonly => var.kind # "absent",
         \/ Missing(n) /\ Add("Global", n, var)
         \/ MissingLocal(n) /\ Add("Local", n, var)
  PROVE  \E i : Writes(i, n, var)
<1>1. PICK i \in DOMAIN scopes :
        /\ Put(i, n, var)
        /\ ~Bound(i, n)
        /\ \/ Missing(n)
           \/ TopOf(i, "Local")
  BY DEF Add, Missing, MissingLocal, FindsLocal
<1>2. \A j \in i + 1 .. Len(scopes) :
        Bound(j, n) => TopOf(i, "Local") /\ scopes[j].type = "Command"
  <2>1. CASE Missing(n)
    BY <1>1, <2>1 DEF Missing, TypeOK
  <2>2. CASE TopOf(i, "Local")
    BY <2>2, AboveLocal
  <2> QED  BY <1>1, <2>1, <2>2
<1>3. ~Here(i, n).readonly
  BY <1>1 DEF Present
<1> QED  BY <1>1, <1>2, <1>3 DEF Writes

---------------------------------------------------------------------------
(* The operations *)

(* Every operation on a variable writes one binding. *)
LEMMA Writing ==
  ASSUME TypeOK, Present, Statement \/ Prefix \/ Builtin
  PROVE  \E i, n, var : Writes(i, n, var)
<1> USE NewVariable DEF Kinds
<1>0. ASSUME NEW i \in DOMAIN scopes, NEW n \in Name
      PROVE  Here(i, n) \in Variable
  BY <1>0, Stack
<1>1. ASSUME NEW n \in Name, NEW i \in DOMAIN scopes, NEW var \in Variable,
             Finds(i, n), Put(i, n, var), Here(i, n).readonly => var.readonly,
             var.readonly => var.kind # "absent"
      PROVE  \E j, m, w : Writes(j, m, w)
  <2>1. FindsLocal(i, n) =>
           \A j \in i + 1 .. Len(scopes) : scopes[j].type = "Command"
    BY AboveLocal DEF FindsLocal
  <2> QED  BY <1>1, <2>1, FoundWrite
<1>2. ASSUME NEW n \in Name, NEW var \in Variable,
             Missing(n), Add("Global", n, var), var.kind = "set"
      PROVE  \E j, m, w : Writes(j, m, w)
  BY <1>2, AddWrite
<1>3. ASSUME NEW n \in Name, NEW v \in Value
      PROVE  /\ Assigned(New("unset"), v) \in Variable
             /\ Assigned(New("unset"), v).kind = "set"
             /\ \A on \in BOOLEAN :
                  /\ Exporting(Assigned(New("unset"), v), on) \in Variable
                  /\ Exporting(Assigned(New("unset"), v), on).kind = "set"
             /\ \A i \in DOMAIN scopes :
                  /\ Assigned(Here(i, n), v) \in Variable
                  /\ Assigned(Here(i, n), v).kind = "set"
                  /\ Assigned(Here(i, n), v).readonly = Here(i, n).readonly
             /\ \A i \in DOMAIN scopes, on \in BOOLEAN :
                  /\ Exporting(Assigned(Here(i, n), v), on) \in Variable
                  /\ Exporting(Assigned(Here(i, n), v), on).kind = "set"
                  /\ Exporting(Assigned(Here(i, n), v), on).readonly
                       = Here(i, n).readonly
  <2>1. /\ Assigned(New("unset"), v) \in Variable
        /\ Assigned(New("unset"), v).kind = "set"
    BY <1>3, AssignedVariable
  <2>2. ASSUME NEW i \in DOMAIN scopes
        PROVE  /\ Assigned(Here(i, n), v) \in Variable
               /\ Assigned(Here(i, n), v).kind = "set"
               /\ Assigned(Here(i, n), v).readonly = Here(i, n).readonly
    BY <1>0, <1>3, <2>2, AssignedVariable
  <2>3. ASSUME NEW on \in BOOLEAN, NEW var \in Variable
        PROVE  /\ Exporting(var, on) \in Variable
               /\ Exporting(var, on).kind = var.kind
               /\ Exporting(var, on).readonly = var.readonly
    BY <2>3, ExportedVariable
  <2> QED  BY <2>1, <2>2, <2>3
<1>4. ASSUME NEW n \in Name, NEW v \in Value, NEW scalar \in BOOLEAN,
             Assign(n, scalar, v)
      PROVE  \E j, m, w : Writes(j, m, w)
  <2>1. (allexport /\ scalar) \in BOOLEAN
    OBVIOUS
  <2>2. ASSUME NEW i \in DOMAIN scopes, Finds(i, n),
               Put(i, n, Exporting(Assigned(Here(i, n), v),
                           Here(i, n).exported \/ (allexport /\ scalar)))
        PROVE  \E j, m, w : Writes(j, m, w)
    <3> DEFINE on == Here(i, n).exported \/ (allexport /\ scalar)
    <3>1. on \in BOOLEAN
      OBVIOUS
    <3> HIDE DEF on
    <3>2. Put(i, n, Exporting(Assigned(Here(i, n), v), on))
      BY <2>2 DEF on
    <3> QED  BY <3>1, <3>2, <2>2, <1>1, <1>3
  <2>3. ASSUME Missing(n), Add("Global", n,
               Exporting(Assigned(New("unset"), v), allexport /\ scalar))
        PROVE  \E j, m, w : Writes(j, m, w)
    <3> DEFINE on == allexport /\ scalar
    <3> HIDE DEF on
    <3>1. on \in BOOLEAN
      BY <2>1 DEF on
    <3>2. Add("Global", n, Exporting(Assigned(New("unset"), v), on))
      BY <2>3 DEF on
    <3> QED  BY <3>1, <3>2, <2>3, <1>2, <1>3
  <2> QED  BY <1>4, <2>2, <2>3 DEF Assign
<1>5. ASSUME NEW n \in Name, NEW v \in Value,
             AssignElement(n, v) \/ Update(n, v) \/ UpdateElement(n, v)
      PROVE  \E j, m, w : Writes(j, m, w)
  <2>1. \/ \E i \in DOMAIN scopes : Finds(i, n) /\ Put(i, n, Assigned(Here(i, n), v))
        \/ Missing(n) /\ Add("Global", n, Assigned(New("unset"), v))
    BY <1>5 DEF AssignElement, Update, UpdateElement
  <2> QED  BY <2>1, <1>1, <1>2, <1>3
<1>6. ASSUME NEW n \in Name, NEW v \in Value,
             PrefixAssign(n, v) \/ PrefixAssignElement(n, v)
      PROVE  \E j, m, w : Writes(j, m, w)
  <2> DEFINE fresh == Exporting(Assigned(New("unset"), v), TRUE)
  <2>1. \/ \E i \in DOMAIN scopes :
             /\ Finds(i, n)
             /\ Put(i, n, Exporting(Assigned(Here(i, n), v), TRUE))
        \/ /\ \A i \in DOMAIN scopes : Finds(i, n) => scopes[i].type # "Command"
           /\ Add("Command", n, fresh)
           /\ phase = "prefix"
    BY <1>6 DEF PrefixAssign, PrefixAssignElement
  <2>2. ASSUME \A i \in DOMAIN scopes : Finds(i, n) => scopes[i].type # "Command",
               Add("Command", n, fresh), phase = "prefix"
        PROVE  \E j, m, w : Writes(j, m, w)
    <3>1. Len(scopes) \in DOMAIN scopes /\ scopes[Len(scopes)].type = "Command"
      BY <2>2 DEF TypeOK, TopType
    <3>2. PICK i \in DOMAIN scopes : TopOf(i, "Command") /\ Put(i, n, fresh)
      BY <2>2 DEF Add
    <3>3. i = Len(scopes)
      BY <3>1, <3>2 DEF TopOf, TypeOK
    <3>4. ~Bound(i, n)
      BY <2>2, <3>1, <3>3 DEF Finds, TypeOK
    <3>5. ~Here(i, n).readonly
      BY <3>4 DEF Present
    <3>6. fresh \in Variable /\ fresh.kind = "set"
      BY <1>3
    <3> HIDE DEF fresh
    <3>7. Writes(i, n, fresh)
      BY <3>2, <3>3, <3>5, <3>6 DEF Writes, TypeOK
    <3> QED  BY <3>7
  <2> QED  BY <2>1, <2>2, <1>1, <1>3
<1>7. ASSUME NEW n \in Name, NEW on \in BOOLEAN, Export(n, on)
      PROVE  \E j, m, w : Writes(j, m, w)
  <2>1. PICK i \in DOMAIN scopes : Finds(i, n) /\ Put(i, n, Exporting(Here(i, n), on))
    BY <1>7 DEF Export
  <2>2. /\ Exporting(Here(i, n), on) \in Variable
        /\ Exporting(Here(i, n), on).readonly = Here(i, n).readonly
        /\ Exporting(Here(i, n), on).kind = Here(i, n).kind
    BY <1>0 DEF Exporting, Variable
  <2>3. Here(i, n).kind # "absent"
    BY <2>1 DEF Finds, Bound
  <2> QED  BY <2>1, <2>2, <2>3, <1>1
<1>8. ASSUME NEW n \in Name, NEW v \in Value, NEW on \in BOOLEAN,
             ExportAssign(n, v, on)
      PROVE  \E j, m, w : Writes(j, m, w)
  <2>1. \/ \E i \in DOMAIN scopes :
             Finds(i, n) /\ Put(i, n, Exporting(Assigned(Here(i, n), v), on))
        \/ Missing(n) /\ Add("Global", n, Exporting(Assigned(New("unset"), v), on))
    BY <1>8 DEF ExportAssign
  <2> QED  BY <2>1, <1>1, <1>2, <1>3
<1>9. ASSUME NEW n \in Name, Unset(n)
      PROVE  \E j, m, w : Writes(j, m, w)
  <2>1. PICK i \in DOMAIN scopes :
          /\ Finds(i, n) /\ Assignable(Here(i, n))
          /\ Put(i, n, New(IF TopOf(i, "Local") THEN "unset" ELSE "absent"))
    BY <1>9 DEF Unset
  <2> DEFINE kind == IF TopOf(i, "Local") THEN "unset" ELSE "absent"
  <2>2. New(kind) \in Variable /\ ~New(kind).readonly
    OBVIOUS
  <2> HIDE DEF kind
  <2>3. Put(i, n, New(kind)) /\ ~Here(i, n).readonly
    BY <2>1 DEF kind, Assignable
  <2> QED  BY <2>1, <2>2, <2>3, <1>1
<1>10. ASSUME NEW n \in Name, NEW v \in Value, UnsetElement(n, v)
       PROVE  \E j, m, w : Writes(j, m, w)
  <2>1. PICK i \in DOMAIN scopes : Finds(i, n) /\ Put(i, n, Assigned(Here(i, n), v))
    BY <1>10 DEF UnsetElement
  <2> QED  BY <2>1, <1>1, <1>3
<1>11. ASSUME NEW n \in Name, NEW v \in Value, NEW verb \in Verbs,
              NEW q \in Requests, Declare(n, verb, q, v)
       PROVE  \E j, m, w : Writes(j, m, w)
  <2>1. q \in Request /\ allexport \in BOOLEAN
    BY EnvAssumption DEF TypeOK
  <2>2. ASSUME NEW i \in DOMAIN scopes, Finds(i, n) \/ FindsLocal(i, n),
               Put(i, n, Redeclared(verb, q, Here(i, n), v))
        PROVE  \E j, m, w : Writes(j, m, w)
    <3> DEFINE new == Redeclared(verb, q, Here(i, n), v)
    <3>1. /\ new \in Variable
          /\ Here(i, n).readonly => new.readonly
          /\ Here(i, n).kind # "absent" => new.kind # "absent"
      BY <1>0, <2>1, DeclareOps
    <3>2. Here(i, n).kind # "absent"
      BY <2>2 DEF Finds, FindsLocal, Bound
    <3>3. FindsLocal(i, n) =>
             \A j \in i + 1 .. Len(scopes) : scopes[j].type = "Command"
      BY AboveLocal DEF FindsLocal
    <3>4. Put(i, n, new)
      BY <2>2
    <3> HIDE DEF new
    <3> QED  BY <2>2, <3>1, <3>2, <3>3, <3>4, FoundWrite
  <2>3. ASSUME \/ Missing(n) /\ Add("Global", n, Declared(verb, q, v))
               \/ MissingLocal(n) /\ Add("Local", n, Declared(verb, q, v))
        PROVE  \E j, m, w : Writes(j, m, w)
    <3> DEFINE new == Declared(verb, q, v)
    <3>1. New("unset") \in Variable
      OBVIOUS
    <3>2. new \in Variable /\ new.kind # "absent"
      BY <2>1, <3>1, DeclareOps
    <3>3. \/ Missing(n) /\ Add("Global", n, new)
          \/ MissingLocal(n) /\ Add("Local", n, new)
      BY <2>3
    <3> HIDE DEF new
    <3> QED  BY <3>2, <3>3, AddWrite
  <2>4. CASE MakesLocal(verb)
    BY <1>11, <2>2, <2>3, <2>4 DEF Declare
  <2>5. CASE ~MakesLocal(verb)
    BY <1>11, <2>2, <2>3, <2>5 DEF Declare
  <2> QED  BY <2>4, <2>5
<1>12. CASE Statement
  BY <1>12, <1>4, <1>5 DEF Statement
<1>13. CASE Prefix
  BY <1>13, <1>6 DEF Prefix
<1>14. CASE Builtin
  BY <1>14, <1>7, <1>8, <1>9, <1>10, <1>11 DEF Builtin
<1> QED  BY <1>12, <1>13, <1>14

(* coproc puts a fresh variable in the global scope, the bottom one. *)
LEMMA CoprocWrite ==
  ASSUME TypeOK, NEW n \in Name, NEW v \in Value, Coproc(n, v)
  PROVE  /\ 1 \in DOMAIN scopes
         /\ \E var \in Variable : Put(1, n, var) /\ ~var.readonly
         /\ phase' = "run" /\ phase = "run"
         /\ UNCHANGED <<prefix, allexport>>
<1> DEFINE var == Assigned(New("unset"), v)
<1>1. New("unset") \in Variable /\ ~New("unset").readonly
  BY NewVariable DEF Kinds
<1>2. var \in Variable /\ ~var.readonly
  BY <1>1, AssignedVariable
<1> HIDE DEF var
<1>3. PICK i \in DOMAIN scopes : TopOf(i, "Global") /\ Put(i, n, var)
  BY DEF Coproc, Add, var
<1>4. i = 1
  BY <1>3, Stack DEF TopOf
<1>5. 1 \in DOMAIN scopes /\ Put(1, n, var)
  BY <1>3, <1>4
<1> QED  BY <1>2, <1>5 DEF Coproc

---------------------------------------------------------------------------
(* Pushing and popping scopes *)

(* A command or a function gets an empty scope of its own. *)
LEMMA Pushing ==
  ASSUME TypeOK, NEW type \in ScopeTypes, scopes' = PushScope(type)
  PROVE  /\ scopes' \in Seq(Scope)
         /\ Len(scopes') = Len(scopes) + 1
         /\ \A i \in DOMAIN scopes : scopes'[i] = scopes[i]
         /\ scopes'[Len(scopes) + 1] = EmptyScope(type)
<1>1. EmptyScope(type) \in Scope
  BY NewVariable DEF EmptyScope, Scope, Kinds
<1> QED  BY <1>1 DEF TypeOK, PushScope

(* What remains after popping is as it was. *)
LEMMA Popping ==
  ASSUME TypeOK, NEW k \in 1 .. Len(scopes), scopes' = SubSeq(scopes, 1, k)
  PROVE  /\ scopes' \in Seq(Scope)
         /\ Len(scopes') = k
         /\ \A i \in 1 .. k : scopes'[i] = scopes[i]
<1>1. scopes \in Seq(Scope) /\ 1 \in 1 .. Len(scopes) + 1 /\ k \in 0 .. Len(scopes)
  BY Stack DEF TypeOK
<1> QED  BY <1>1, Stack, SubSeqProperties

(* What a control step does to the stack. *)
LEMMA Controlling ==
  ASSUME TypeOK, Control
  PROVE  \/ /\ scopes' = PushScope("Command")
            /\ phase' = "prefix" /\ prefix' = NoPrefix
         \/ /\ scopes' = PushScope("Local") /\ TopType = "Command"
            /\ phase' = "run" /\ prefix' = NoPrefix
         \/ \E k \in 1 .. Len(scopes) :
              /\ scopes' = SubSeq(scopes, 1, k)
              /\ phase' = "run" /\ prefix' \in {prefix, NoPrefix}
         \/ /\ scopes' = scopes
            /\ \/ phase = "prefix" /\ phase' = "command" /\ prefix' = prefix
               \/ phase' = "run" /\ prefix' = NoPrefix
<1>1. /\ TopType = "Command" => Len(scopes) - 1 \in 1 .. Len(scopes)
      /\ TopType = "Local" => Len(scopes) - 2 \in 1 .. Len(scopes)
  <2>1. Len(scopes) \in DOMAIN scopes
    BY Stack
  <2>2. TopType # "Global" => Len(scopes) > 1
    BY Stack, <2>1 DEF TopType
  <2>3. TopType = "Local" => Len(scopes) - 1 \in DOMAIN scopes
                             /\ scopes[Len(scopes) - 1].type = "Command"
    BY Stack, <2>1, <2>2 DEF TopType, TypeOK
  <2>4. TopType = "Local" => Len(scopes) - 1 # 1
    BY Stack, <2>3
  <2> QED  BY Stack, <2>2, <2>3, <2>4
<1>2. phase # "run" => TopType = "Command"
  BY DEF TypeOK
<1>3. CASE StartCommand
  BY <1>3 DEF StartCommand
<1>4. CASE PrefixFails
  BY <1>1, <1>2, <1>4 DEF PrefixFails, PopCommand
<1>5. CASE Invoke
  BY <1>5 DEF Invoke
<1>6. CASE EndCommand
  BY <1>1, <1>2, <1>6 DEF EndCommand, PopCommand
<1>7. CASE CallFunction
  BY <1>2, <1>7 DEF CallFunction
<1>8. CASE ReturnFromFunction
  BY <1>1, <1>8 DEF ReturnFromFunction
<1>9. CASE Evaluate
  BY <1>9 DEF Evaluate
<1>10. CASE EndEvaluate
  BY <1>1, <1>10 DEF EndEvaluate, PopCommand
<1> QED  BY <1>3, <1>4, <1>5, <1>6, <1>7, <1>8, <1>9, <1>10 DEF Control

(* The other variables of a step keep their types. *)
LEMMA OtherVariables ==
  ASSUME TypeOK, Next
  PROVE  /\ phase' \in Phases
         /\ prefix' \in [Name -> Value \cup {Nothing}]
         /\ allexport' \in BOOLEAN
<1> USE DEF TypeOK, Phases, NoPrefix
<1>1. CASE Statement
  BY <1>1 DEF Statement, Assign, AssignElement, Update, UpdateElement
<1>2. CASE Prefix
  <2>1. \E n \in Name, v \in Value : /\ prefix' = [prefix EXCEPT ![n] = v]
                                    /\ UNCHANGED <<phase, allexport>>
    BY <1>2 DEF Prefix, PrefixAssign, PrefixAssignElement
  <2> QED  BY <2>1
<1>3. CASE Builtin
  <2>1. InBuiltin /\ allexport' = allexport
    BY <1>3 DEF Builtin, Export, ExportAssign, Declare, Unset, UnsetElement
  <2> QED  BY <2>1 DEF InBuiltin
<1>4. CASE Control
  BY <1>4 DEF Control, StartCommand, PrefixFails, PopCommand, Invoke, EndCommand,
              CallFunction, ReturnFromFunction, Evaluate, EndEvaluate
<1>5. CASE \E on \in BOOLEAN : SetAllexport(on)
  BY <1>5 DEF SetAllexport, InBuiltin
<1>6. CASE \E n \in Name, v \in Value : Coproc(n, v)
  BY <1>6 DEF Coproc
<1> QED  BY <1>1, <1>2, <1>3, <1>4, <1>5, <1>6 DEF Next

(* A write is made while the top of the stack is what the phase asks for. *)
LEMMA WritePhase ==
  ASSUME Statement \/ Prefix \/ Builtin
  PROVE  phase' # "run" => phase # "run"
<1>1. CASE Statement
  BY <1>1 DEF Statement, Assign, AssignElement, Update, UpdateElement
<1>2. CASE Prefix
  BY <1>2 DEF Prefix, PrefixAssign, PrefixAssignElement
<1>3. CASE Builtin
  <2>1. InBuiltin
    BY <1>3 DEF Builtin, Export, ExportAssign, Declare, Unset, UnsetElement
  <2> QED  BY <2>1 DEF InBuiltin
<1> QED  BY <1>1, <1>2, <1>3

---------------------------------------------------------------------------
(* The inductive invariant *)

Inv == TypeOK /\ Present /\ PrefixSeen

(* The stack keeps its order of scopes, and only what is there is readonly. *)
LEMMA StackStep ==
  ASSUME TypeOK, Present, Next
  PROVE  TypeOK' /\ Present'
<1> DEFINE Order == /\ Len(scopes) > 0
                    /\ \A i \in DOMAIN scopes :
                         /\ scopes[i].type = "Global" <=> i = 1
                         /\ scopes[i].type = "Local"
                              => i > 1 /\ scopes[i - 1].type = "Command"
           Top == phase # "run" => TopType = "Command"
<1>1. Order /\ Top
  BY DEF TypeOK
<1>2. SUFFICES scopes' \in Seq(Scope) /\ Order' /\ Top' /\ Present'
  BY OtherVariables DEF TypeOK
<1>3. ASSUME NEW i \in DOMAIN scopes, NEW n \in Name, NEW var \in Variable,
             Put(i, n, var), var.readonly => var.kind # "absent",
             phase' # "run" => phase # "run"
      PROVE  scopes' \in Seq(Scope) /\ Order' /\ Top' /\ Present'
  <2>2. /\ scopes' \in Seq(Scope)
        /\ Len(scopes') = Len(scopes)
        /\ \A j \in DOMAIN scopes : scopes'[j].type = scopes[j].type
        /\ \A j \in DOMAIN scopes, m \in Name :
             scopes'[j].map[m] = IF j = i /\ m = n THEN var ELSE Here(j, m)
    BY <1>3, WriteEffect DEF TypeOK
  <2>3. DOMAIN scopes' = DOMAIN scopes
    BY <2>2, Stack
  <2>4. Order'
    BY <1>1, <2>2, <2>3, Stack
  <2>5. Top'
    BY <1>1, <1>3, <2>2, Stack DEF TopType
  <2>6. Present'
    BY <1>3, <2>2, <2>3 DEF Present, Here, Bound
  <2> QED  BY <2>2, <2>4, <2>5, <2>6
<1>4. ASSUME NEW type \in {"Command", "Local"}, scopes' = PushScope(type),
             type = "Local" => TopType = "Command" /\ phase' = "run"
      PROVE  scopes' \in Seq(Scope) /\ Order' /\ Top' /\ Present'
  <2>1. /\ scopes' \in Seq(Scope)
        /\ Len(scopes') = Len(scopes) + 1
        /\ \A i \in DOMAIN scopes : scopes'[i] = scopes[i]
        /\ scopes'[Len(scopes) + 1] = EmptyScope(type)
    BY <1>4, Pushing DEF ScopeTypes
  <2>2. /\ DOMAIN scopes' = 1 .. Len(scopes) + 1
        /\ \A i \in DOMAIN scopes' : i \in DOMAIN scopes \/ i = Len(scopes) + 1
    BY <2>1, Stack
  <2>3. EmptyScope(type).type = type
        /\ \A n \in Name : ~EmptyScope(type).map[n].readonly
    BY NewVariable DEF EmptyScope, Kinds
  <2>4. Order'
    <3> SUFFICES ASSUME NEW i \in DOMAIN scopes'
                 PROVE  /\ scopes'[i].type = "Global" <=> i = 1
                        /\ scopes'[i].type = "Local"
                             => i > 1 /\ scopes'[i - 1].type = "Command"
      BY <2>1, Stack
    <3>1. CASE i \in DOMAIN scopes
      <4>1. scopes[i].type = "Local" => i - 1 \in DOMAIN scopes
        BY <1>1, <3>1, Stack
      <4> QED  BY <1>1, <2>1, <3>1, <4>1
    <3>2. CASE i = Len(scopes) + 1
      <4>1. scopes'[i - 1] = scopes[Len(scopes)] /\ i > 1
        BY <2>1, <3>2, Stack
      <4> QED  BY <1>4, <2>1, <2>3, <3>2, <4>1 DEF TopType
    <3> QED  BY <2>2, <3>1, <3>2
  <2>5. Top'
    BY <1>4, <2>1, <2>3 DEF TopType
  <2>6. Present'
    BY <2>1, <2>2, <2>3 DEF Present, Here, Bound
  <2> QED  BY <2>1, <2>4, <2>5, <2>6
<1>5. ASSUME NEW k \in 1 .. Len(scopes), scopes' = SubSeq(scopes, 1, k),
             phase' = "run"
      PROVE  scopes' \in Seq(Scope) /\ Order' /\ Top' /\ Present'
  <2>1. /\ scopes' \in Seq(Scope) /\ Len(scopes') = k
        /\ \A i \in 1 .. k : scopes'[i] = scopes[i]
    BY <1>5, Popping
  <2>2. DOMAIN scopes' = 1 .. k /\ 1 .. k \subseteq DOMAIN scopes
    BY <2>1, Stack
  <2>3. Order'
    <3> SUFFICES ASSUME NEW i \in 1 .. k
                 PROVE  /\ scopes'[i].type = "Global" <=> i = 1
                        /\ scopes'[i].type = "Local"
                             => i > 1 /\ scopes'[i - 1].type = "Command"
      BY <2>1, <2>2
    <3>1. i > 1 => i - 1 \in 1 .. k
      OBVIOUS
    <3> QED  BY <1>1, <2>1, <2>2, <3>1
  <2>4. Present'
    BY <2>1, <2>2 DEF Present, Here, Bound
  <2> QED  BY <1>5, <2>1, <2>3, <2>4
<1>6. ASSUME scopes' = scopes, phase' # "run" => phase # "run"
      PROVE  scopes' \in Seq(Scope) /\ Order' /\ Top' /\ Present'
  BY <1>1, <1>6 DEF TypeOK, Present, Here, Bound, TopType
<1>7. CASE Control
  BY <1>4, <1>5, <1>6, <1>7, Controlling
<1>8. CASE \E on \in BOOLEAN : SetAllexport(on)
  BY <1>6, <1>8 DEF SetAllexport, InBuiltin
<1>9. CASE Statement \/ Prefix \/ Builtin
  <2>1. PICK i, n, var : Writes(i, n, var)
    BY <1>9, Writing
  <2>2. phase' # "run" => phase # "run"
    BY <1>9, WritePhase
  <2> QED  BY <1>3, <2>1, <2>2 DEF Writes
<1>10. CASE \E n \in Name, v \in Value : Coproc(n, v)
  <2>1. PICK n \in Name, v \in Value : Coproc(n, v)
    BY <1>10
  <2>2. PICK var \in Variable : Put(1, n, var) /\ ~var.readonly
    BY <2>1, CoprocWrite
  <2>3. 1 \in DOMAIN scopes /\ phase' = "run"
    BY <2>1, CoprocWrite
  <2> QED  BY <1>3, <2>2, <2>3
<1> QED  BY <1>7, <1>8, <1>9, <1>10 DEF Next

(* What a prefix has assigned stays visible and exported while the command *)
(* is being started.                                                       *)
LEMMA PrefixStep ==
  ASSUME TypeOK, TypeOK', Present, PrefixSeen, Next
  PROVE  PrefixSeen'
<1> DEFINE Seen(n, v) == \E i \in DOMAIN scopes :
                           /\ Finds(i, n) /\ Here(i, n).exported
                           /\ Here(i, n).kind = "set" /\ Here(i, n).value = v
<1>1. CASE prefix' = NoPrefix \/ phase' \notin {"prefix", "command"}
  BY <1>1 DEF PrefixSeen, NoPrefix
<1>2. CASE scopes' = scopes /\ prefix' = prefix /\ phase \in {"prefix", "command"}
  BY <1>2 DEF PrefixSeen, Finds, Here, Bound
<1>3. ASSUME NEW i \in DOMAIN scopes, NEW n \in Name, NEW var \in Variable,
             Put(i, n, var),
             phase' \in {"prefix", "command"} => phase \in {"prefix", "command"},
             NEW p, prefix' = [prefix EXCEPT ![n] = p],
             p # Nothing => /\ Finds(i, n)'
                            /\ var.exported /\ var.kind = "set" /\ var.value = p
      PROVE  PrefixSeen'
  <2>1. /\ Len(scopes') = Len(scopes) /\ DOMAIN scopes' = DOMAIN scopes
        /\ \A j \in DOMAIN scopes, m \in Name :
             scopes'[j].map[m] = IF j = i /\ m = n THEN var ELSE Here(j, m)
    BY <1>3, WriteEffect, Stack DEF TypeOK
  <2> SUFFICES ASSUME phase' \in {"prefix", "command"},
                      NEW m \in Name, prefix'[m] # Nothing
               PROVE  Seen(m, prefix[m])'
    BY DEF PrefixSeen
  <2>2. CASE m = n
    <3>1. prefix'[m] = p
      BY <1>3, <2>2 DEF TypeOK
    <3>2. Finds(i, n)' /\ var.exported /\ var.kind = "set" /\ var.value = p
      BY <1>3, <3>1
    <3>3. Here(i, n)' = var
      BY <2>1 DEF Here
    <3>4. i \in DOMAIN scopes'
      BY <2>1
    <3> QED  BY <2>2, <3>1, <3>2, <3>3, <3>4
  <2>3. CASE m # n
    <3>1. prefix'[m] = prefix[m]
      BY <1>3, <2>3 DEF TypeOK
    <3>2. PICK j \in DOMAIN scopes :
            /\ Finds(j, m) /\ Here(j, m).exported
            /\ Here(j, m).kind = "set" /\ Here(j, m).value = prefix[m]
      BY <1>3, <3>1 DEF PrefixSeen
    <3>3. \A l \in DOMAIN scopes : Here(l, m)' = Here(l, m)
      BY <2>1, <2>3 DEF Here
    <3>4. Finds(j, m)'
      BY <2>1, <3>2, <3>3, Stack DEF Finds, Bound
    <3>5. j \in DOMAIN scopes'
      BY <2>1
    <3> QED  BY <3>1, <3>2, <3>3, <3>4, <3>5
  <2> QED  BY <2>2, <2>3
<1>4. ASSUME NEW n \in Name, NEW v \in Value, Update(n, v) \/ UpdateElement(n, v)
      PROVE  PrefixSeen'
  <2>0. PICK i \in DOMAIN scopes :
          \E w \in {Assigned(Here(i, n), v), Assigned(New("unset"), v)} : Put(i, n, w)
    BY <1>4 DEF Update, UpdateElement, Add
  <2>1. PICK var \in {Assigned(Here(i, n), v), Assigned(New("unset"), v)} :
          Put(i, n, var)
    BY <2>0
  <2>2. var \in Variable
    BY <2>1, Stack, NewVariable, AssignedVariable DEF Kinds
  <2>3. prefix' = [prefix EXCEPT ![n] = Nothing] /\ phase' = phase
    BY <1>4 DEF Update, UpdateElement
  <2> QED  BY <1>3, <2>1, <2>2, <2>3
<1>5. ASSUME NEW n \in Name, NEW v \in Value,
             PrefixAssign(n, v) \/ PrefixAssignElement(n, v)
      PROVE  PrefixSeen'
  <2>1. /\ phase = "prefix" /\ phase' = phase
        /\ prefix' = [prefix EXCEPT ![n] = v]
    BY <1>5 DEF PrefixAssign, PrefixAssignElement
  <2>0. PICK i \in DOMAIN scopes :
          \E w \in {Here(i, n), New("unset")} :
            /\ Put(i, n, Exporting(Assigned(w, v), TRUE))
            /\ Finds(i, n) \/ TopOf(i, "Command")
    BY <1>5 DEF PrefixAssign, PrefixAssignElement, Add
  <2>2. PICK old \in {Here(i, n), New("unset")} :
          /\ Put(i, n, Exporting(Assigned(old, v), TRUE))
          /\ Finds(i, n) \/ TopOf(i, "Command")
    BY <2>0
  <2>3. old \in Variable
    BY <2>2, Stack, NewVariable DEF Kinds
  <2> DEFINE var == Exporting(Assigned(old, v), TRUE)
  <2>4. var \in Variable /\ var.exported /\ var.kind = "set" /\ var.value = v
    <3> DEFINE set == Assigned(old, v)
    <3>1. set \in Variable /\ set.kind = "set" /\ set.value = v
      BY <2>3, AssignedVariable
    <3> HIDE DEF set
    <3>2. /\ Exporting(set, TRUE) \in Variable
          /\ Exporting(set, TRUE).exported = TRUE
          /\ Exporting(set, TRUE).kind = set.kind
          /\ Exporting(set, TRUE).value = set.value
      BY <3>1, ExportedVariable
    <3> QED  BY <3>1, <3>2 DEF set
  <2>5. Put(i, n, var)
    BY <2>2
  <2> HIDE DEF var
  <2>6. /\ Len(scopes') = Len(scopes) /\ DOMAIN scopes' = DOMAIN scopes
        /\ \A j \in DOMAIN scopes, m \in Name :
             scopes'[j].map[m] = IF j = i /\ m = n THEN var ELSE Here(j, m)
    BY <2>4, <2>5, WriteEffect, Stack DEF TypeOK
  <2>7. TopOf(i, "Command") => i = Len(scopes)
    <3>1. scopes[Len(scopes)].type = "Command"
      BY <2>1 DEF TypeOK, TopType
    <3>2. i < Len(scopes) => Len(scopes) \in i + 1 .. Len(scopes)
      BY Stack
    <3> QED  BY <3>1, <3>2, Stack DEF TopOf
  <2>8. \A j \in i + 1 .. Len(scopes) : ~Bound(j, n)
    BY <2>2, <2>7, Stack DEF Finds
  <2>9. Finds(i, n)'
    <3>1. Here(i, n)' = var
      BY <2>6 DEF Here
    <3>2. \A j \in i + 1 .. Len(scopes') : Here(j, n)' = Here(j, n)
      BY <2>6, Stack DEF Here
    <3>3. i \in DOMAIN scopes'
      BY <2>6
    <3> QED  BY <2>4, <2>6, <2>8, <3>1, <3>2, <3>3 DEF Finds, Bound
  <2> QED  BY <1>3, <2>1, <2>4, <2>5, <2>9
<1>6. CASE Statement
  <2>1. PICK n \in Name, v \in Value :
          \/ Update(n, v) \/ UpdateElement(n, v)
          \/ AssignElement(n, v)
          \/ \E scalar \in BOOLEAN : Assign(n, scalar, v)
    BY <1>6 DEF Statement
  <2>2. CASE AssignElement(n, v) \/ \E scalar \in BOOLEAN : Assign(n, scalar, v)
    <3>1. phase' = "run"
      BY <2>2 DEF AssignElement, Assign
    <3> QED  BY <3>1, <1>1
  <2> QED  BY <1>4, <2>1, <2>2
<1>7. CASE Prefix
  BY <1>5, <1>7 DEF Prefix
<1>8. CASE Builtin \/ \E on \in BOOLEAN : SetAllexport(on)
  <2>1. InBuiltin
    BY <1>8 DEF Builtin, Export, ExportAssign, Declare, Unset, UnsetElement,
                SetAllexport
  <2> QED  BY <1>1, <2>1 DEF InBuiltin
<1>9. CASE Control
  <2>1. \/ prefix' = NoPrefix \/ phase' = "run"
        \/ scopes' = scopes /\ prefix' = prefix /\ phase = "prefix"
    BY <1>9, Controlling
  <2> QED  BY <1>1, <1>2, <2>1
<1>10. CASE \E n \in Name, v \in Value : Coproc(n, v)
  <2>1. phase' = "run"
    BY <1>10 DEF Coproc
  <2> QED  BY <1>1, <2>1
<1> QED  BY <1>6, <1>7, <1>8, <1>9, <1>10 DEF Next

---------------------------------------------------------------------------
(* Theorems *)

(* The inductive invariant holds in every reachable state. *)
THEOREM Invariance == Spec => []Inv
<1>1. Init => Inv
  <2> SUFFICES ASSUME Init PROVE Inv
    OBVIOUS
  <2>1. EmptyScope("Global") \in Scope /\ EmptyScope("Global").type = "Global"
        /\ \A n \in Name : ~EmptyScope("Global").map[n].readonly
    BY NewVariable DEF EmptyScope, Scope, ScopeTypes, Kinds
  <2>2. /\ scopes \in Seq(Scope) /\ Len(scopes) = 1 /\ DOMAIN scopes = {1}
        /\ scopes[1] = EmptyScope("Global")
    BY <2>1 DEF Init
  <2>3. TypeOK
    <3>1. \A i \in DOMAIN scopes :
            /\ scopes[i].type = "Global" <=> i = 1
            /\ scopes[i].type = "Local"
                 => i > 1 /\ scopes[i - 1].type = "Command"
      BY <2>1, <2>2
    <3>2. /\ phase \in Phases /\ phase = "run" /\ allexport \in BOOLEAN
          /\ prefix \in [Name -> Value \cup {Nothing}]
      BY DEF Init, Phases, NoPrefix
    <3> QED  BY <2>2, <3>1, <3>2 DEF TypeOK
  <2>4. Present
    BY <2>1, <2>2 DEF Present, Here
  <2>5. PrefixSeen
    BY DEF Init, PrefixSeen
  <2> QED  BY <2>3, <2>4, <2>5 DEF Inv
<1>2. Inv /\ [Next]_vars => Inv'
  <2>1. CASE Next
    BY <2>1, StackStep, PrefixStep DEF Inv
  <2>2. CASE UNCHANGED vars
    <3>1. /\ TypeOK => TypeOK'
          /\ Present => Present'
      BY <2>2 DEF TypeOK, Present, Here, Bound, TopType, vars
    <3>2. PrefixSeen => PrefixSeen'
      BY <2>2 DEF PrefixSeen, Finds, Here, Bound, vars
    <3> QED  BY <3>1, <3>2 DEF Inv
  <2> QED  BY <2>1, <2>2
<1> QED  BY <1>1, <1>2, PTL DEF Spec

(* The stack of scopes keeps its shape: TypeOK of every state of the code  *)
(* in env.rs and its callers.                                              *)
THEOREM TypeCorrect == Spec => []TypeOK
  BY Invariance, PTL DEF Inv

(* A command finds in its environment what was assigned before it, for any *)
(* nesting of commands and functions around it.                            *)
THEOREM PrefixDelivered == Spec => []PrefixReachesChild
<1>1. Inv => PrefixReachesChild
  <2> SUFFICES ASSUME Inv, phase = "command", NEW n \in Name, prefix[n] # Nothing
               PROVE  \E i \in DOMAIN scopes : /\ Exports(i, n)
                                              /\ Here(i, n).kind = "set"
                                              /\ Here(i, n).value = prefix[n]
    BY DEF PrefixReachesChild
  <2> QED  BY DEF Inv, PrefixSeen, Exports, Finds, Bound
<1> QED  BY <1>1, Invariance, PTL

(* A readonly variable stays, readonly, as long as its scope, but for a    *)
(* global one that coproc replaces.                                        *)
THEOREM ReadonlyKept == Spec => ReadonlyStays
<1> DEFINE Kept == \A i \in DOMAIN scopes, n \in Name :
                     i \in DOMAIN scopes' /\ Here(i, n).readonly
                       => \/ /\ scopes'[i].map[n].readonly
                             /\ scopes'[i].map[n].kind # "absent"
                          \/ Replaced(i, n)
<1>1. Inv /\ Next => Kept
  <2> SUFFICES ASSUME Inv, Next PROVE Kept
    OBVIOUS
  <2> USE DEF Inv
  <2>1. CASE Statement \/ Prefix \/ Builtin
    <3>1. PICK i, n, var : Writes(i, n, var)
      BY <2>1, Writing
    <3>2. \A j \in DOMAIN scopes, m \in Name :
            scopes'[j].map[m] = IF j = i /\ m = n THEN var ELSE Here(j, m)
      BY <3>1, WriteEffect DEF TypeOK, Writes
    <3> QED  BY <3>1, <3>2 DEF Writes, Present, Bound
  <2>2. ASSUME \A i \in DOMAIN scopes : i \in DOMAIN scopes' => scopes'[i] = scopes[i]
        PROVE  Kept
    BY <2>2 DEF Present, Here, Bound
  <2>3. CASE Control
    <3>1. CASE \E type \in ScopeTypes : scopes' = PushScope(type)
      BY <3>1, <2>2, Pushing
    <3>2. CASE \E k \in 1 .. Len(scopes) : scopes' = SubSeq(scopes, 1, k)
      BY <3>2, <2>2, Popping
    <3> QED  BY <2>2, <2>3, <3>1, <3>2, Controlling DEF ScopeTypes
  <2>4. CASE \E on \in BOOLEAN : SetAllexport(on)
    BY <2>2, <2>4 DEF SetAllexport
  <2>5. ASSUME NEW m \in Name, NEW v \in Value, Coproc(m, v)
        PROVE  Kept
    <3>1. Replaced(1, m)
      BY <2>5 DEF Replaced
    <3>2. PICK var \in Variable : Put(1, m, var)
      BY <2>5, CoprocWrite
    <3>3. 1 \in DOMAIN scopes /\ scopes \in Seq(Scope)
      BY <2>5, CoprocWrite DEF TypeOK
    <3>4. \A j \in DOMAIN scopes, k \in Name :
            scopes'[j].map[k] = IF j = 1 /\ k = m THEN var ELSE Here(j, k)
      BY <3>2, <3>3, WriteEffect
    <3> QED  BY <3>1, <3>4 DEF Present, Bound
  <2> QED  BY <2>1, <2>3, <2>4, <2>5 DEF Next
<1>2. Inv /\ [Next]_vars => [Kept]_vars
  BY <1>1
<1> QED  BY <1>2, Invariance, PTL DEF Spec, ReadonlyStays

(* What another variable of the name hides is not touched, but by coproc. *)
THEOREM HiddenKept == Spec => HiddenUntouched
<1> DEFINE Kept == \A i \in DOMAIN scopes, n \in Name :
       i \in DOMAIN scopes' /\ scopes'[i].map[n] # Here(i, n)
         => \/ \A j \in i + 1 .. Len(scopes) :
                 Bound(j, n) => TopOf(i, "Local") /\ scopes[j].type = "Command"
            \/ Replaced(i, n)
<1>1. Inv /\ Next => Kept
  <2> SUFFICES ASSUME Inv, Next PROVE Kept
    OBVIOUS
  <2> USE DEF Inv
  <2>1. CASE Statement \/ Prefix \/ Builtin
    <3>1. PICK i, n, var : Writes(i, n, var)
      BY <2>1, Writing
    <3>2. \A j \in DOMAIN scopes, m \in Name :
            scopes'[j].map[m] = IF j = i /\ m = n THEN var ELSE Here(j, m)
      BY <3>1, WriteEffect DEF TypeOK, Writes
    <3> QED  BY <3>1, <3>2 DEF Writes
  <2>2. ASSUME \A i \in DOMAIN scopes : i \in DOMAIN scopes' => scopes'[i] = scopes[i]
        PROVE  Kept
    BY <2>2 DEF Here
  <2>3. CASE Control
    <3>1. CASE \E type \in ScopeTypes : scopes' = PushScope(type)
      BY <3>1, <2>2, Pushing
    <3>2. CASE \E k \in 1 .. Len(scopes) : scopes' = SubSeq(scopes, 1, k)
      BY <3>2, <2>2, Popping
    <3> QED  BY <2>2, <2>3, <3>1, <3>2, Controlling DEF ScopeTypes
  <2>4. CASE \E on \in BOOLEAN : SetAllexport(on)
    BY <2>2, <2>4 DEF SetAllexport
  <2>5. ASSUME NEW m \in Name, NEW v \in Value, Coproc(m, v)
        PROVE  Kept
    <3>1. Replaced(1, m)
      BY <2>5 DEF Replaced
    <3>2. PICK var \in Variable : Put(1, m, var)
      BY <2>5, CoprocWrite
    <3>3. 1 \in DOMAIN scopes /\ scopes \in Seq(Scope)
      BY <2>5, CoprocWrite DEF TypeOK
    <3>4. \A j \in DOMAIN scopes, k \in Name :
            scopes'[j].map[k] = IF j = 1 /\ k = m THEN var ELSE Here(j, k)
      BY <3>2, <3>3, WriteEffect
    <3> QED  BY <3>1, <3>4
  <2> QED  BY <2>1, <2>3, <2>4, <2>5 DEF Next
<1>2. Inv /\ [Next]_vars => [Kept]_vars
  BY <1>1
<1> QED  BY <1>2, Invariance, PTL DEF Spec, HiddenUntouched
============================================================================
