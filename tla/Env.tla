-------------------------------- MODULE Env --------------------------------
(***************************************************************************)
(* The variables of one shell: the stack of scopes in brush-core's env.rs, *)
(* and the assignments, declarations and removals that go through it.      *)
(*                                                                         *)
(* The bottom scope is the global one.  A simple command pushes a Command  *)
(* scope for the assignments written before it; a function it calls pushes *)
(* a Local scope on that, and eval or source run their commands on it      *)
(* directly.  Which commands a script runs is left open.                   *)
(*                                                                         *)
(* A variable that is set holds one of Value.  Whether that is a string or *)
(* an array is not kept: which element an assignment changes, and what     *)
(* appending gives, is the choice of the new value.  An operation that     *)
(* ends in an error is a step with the part that was done before it, and   *)
(* is left out where that is nothing.                                      *)
(*                                                                         *)
(* The names are those a script sets.  `_` after each command, and the     *)
(* READLINE_ and COMP_ names during completion, the shell sets itself, and *)
(* they are not among them.                                                *)
(***************************************************************************)
EXTENDS Integers, Sequences

CONSTANTS Name,      \* the names of variables, but for those the shell sets
          Value,     \* what a variable can hold
          Nothing,   \* no value
          Requests,  \* what scripts ask declare for: a subset of Request
          MaxScopes  \* bound: the scopes on the stack

VARIABLES scopes,    \* ShellEnvironment's scopes, the innermost last
          phase,     \* what the innermost command is doing
          prefix,    \* what the command being started has assigned before it
          allexport  \* the option `set -a`

vars == <<scopes, phase, prefix, allexport>>

---------------------------------------------------------------------------
(* ShellVariable.  A name that is not in a scope's map is absent in it. *)

Kinds == {"absent", "unset", "set"}

Variable == [kind : Kinds, value : Value \cup {Nothing},
             exported : BOOLEAN, readonly : BOOLEAN]

New(kind) == [kind |-> kind, value |-> Nothing, exported |-> FALSE,
              readonly |-> FALSE]

(* A readonly variable refuses assign, whatever it holds. *)
Assignable(var) == ~var.readonly

Assigned(var, v) == [var EXCEPT !.kind = "set", !.value = v]

(* assign_at_index goes through assign only when there is no value yet. *)
ElementAssignable(var) == var.kind = "unset" => Assignable(var)

Exporting(var, on) == [var EXCEPT !.exported = on]

---------------------------------------------------------------------------
(* ShellEnvironment *)

ScopeTypes == {"Global", "Local", "Command"}

Scope == [type : ScopeTypes, map : [Name -> Variable]]

EmptyScope(type) == [type |-> type, map |-> [n \in Name |-> New("absent")]]

Here(i, n) == scopes[i].map[n]

Bound(i, n) == Here(i, n).kind # "absent"

(* Variant: the stack is searched from the bottom. *)
FindsFirst(i, n) == /\ i \in DOMAIN scopes
                    /\ Bound(i, n)
                    /\ \A j \in 1 .. i - 1 : ~Bound(j, n)

(* get, get_mut: the binding found from the top of the stack on down. *)
Finds(i, n) == /\ i \in DOMAIN scopes
               /\ Bound(i, n)
               /\ \A j \in i + 1 .. Len(scopes) : ~Bound(j, n)

Missing(n) == \A i \in DOMAIN scopes : ~Bound(i, n)

(* The scope of a type that add puts a variable in. *)
TopOf(i, type) == /\ i \in DOMAIN scopes
                  /\ scopes[i].type = type
                  /\ \A j \in i + 1 .. Len(scopes) : scopes[j].type # type

(* OnlyInCurrentLocal *)
FindsLocal(i, n) == TopOf(i, "Local") /\ Bound(i, n)

MissingLocal(n) == \A i \in DOMAIN scopes : ~FindsLocal(i, n)

Put(i, n, var) == scopes' = [scopes EXCEPT ![i].map[n] = var]

Add(type, n, var) == \E i \in DOMAIN scopes : TopOf(i, type) /\ Put(i, n, var)

PushScope(type) == Append(scopes, EmptyScope(type))

TopType == scopes[Len(scopes)].type

InFunction == \E i \in DOMAIN scopes : scopes[i].type = "Local"

---------------------------------------------------------------------------
Phases == {"run",      \* running statements: a program, a body, an eval
           "prefix",   \* applying the assignments before a command
           "command",  \* about to run the command
           "builtin"}  \* in a builtin

NoPrefix == [n \in Name |-> Nothing]

Init == /\ scopes = <<EmptyScope("Global")>>
        /\ phase = "run"
        /\ prefix = NoPrefix
        /\ allexport = FALSE

---------------------------------------------------------------------------
(* Assignments that are statements of their own *)

(* A scalar is exported under `set -a`, an array is not. *)
Assign(n, scalar, v) ==
  /\ phase = "run"
  /\ \/ \E i \in DOMAIN scopes :
          /\ Finds(i, n)
          /\ Assignable(Here(i, n))
          /\ Put(i, n, Exporting(Assigned(Here(i, n), v),
                          Here(i, n).exported \/ (allexport /\ scalar)))
     \/ /\ Missing(n)
        /\ Add("Global", n, Exporting(Assigned(New("unset"), v),
                              allexport /\ scalar))
  /\ UNCHANGED <<phase, prefix, allexport>>

AssignElement(n, v) ==
  /\ phase = "run"
  /\ \/ \E i \in DOMAIN scopes :
          /\ Finds(i, n)
          /\ ElementAssignable(Here(i, n))
          /\ Put(i, n, Assigned(Here(i, n), v))
     \/ /\ Missing(n)
        /\ Add("Global", n, Assigned(New("unset"), v))
  /\ UNCHANGED <<phase, prefix, allexport>>

(* update_or_add, from a for loop, an expansion or a builtin like read: in *)
(* any phase, since expanding the words of a command can assign too.       *)
Update(n, v) ==
  /\ \/ \E i \in DOMAIN scopes :
          /\ Finds(i, n)
          /\ Assignable(Here(i, n))
          /\ Put(i, n, Assigned(Here(i, n), v))
     \/ /\ Missing(n)
        /\ Add("Global", n, Assigned(New("unset"), v))
  /\ prefix' = [prefix EXCEPT ![n] = Nothing]
  /\ UNCHANGED <<phase, allexport>>

UpdateElement(n, v) ==
  /\ \/ \E i \in DOMAIN scopes :
          /\ Finds(i, n)
          /\ ElementAssignable(Here(i, n))
          /\ Put(i, n, Assigned(Here(i, n), v))
     \/ /\ Missing(n)
        /\ Add("Global", n, Assigned(New("unset"), v))
  /\ prefix' = [prefix EXCEPT ![n] = Nothing]
  /\ UNCHANGED <<phase, allexport>>

(* set_global, for the two variables of a coprocess: a fresh variable in   *)
(* the global scope, whatever hides it and whatever was there.             *)
Coproc(n, v) ==
  /\ phase = "run"
  /\ Add("Global", n, Assigned(New("unset"), v))
  /\ UNCHANGED <<phase, prefix, allexport>>

---------------------------------------------------------------------------
(* A simple command *)

StartCommand ==
  /\ phase = "run"
  /\ Len(scopes) < MaxScopes
  /\ scopes' = PushScope("Command")
  /\ phase' = "prefix"
  /\ prefix' = NoPrefix
  /\ UNCHANGED allexport

(* Variant: the assignment is made as if it were a statement. *)
PrefixAssignAnywhere(n, v) ==
  /\ phase = "prefix"
  /\ \/ \E i \in DOMAIN scopes :
          /\ Finds(i, n)
          /\ Assignable(Here(i, n))
          /\ Put(i, n, Assigned(Here(i, n), v))
     \/ /\ Missing(n)
        /\ Add("Command", n, Exporting(Assigned(New("unset"), v), TRUE))
  /\ prefix' = [prefix EXCEPT ![n] = v]
  /\ UNCHANGED <<phase, allexport>>

(* apply_assignment with a required scope: any binding of that type that   *)
(* is found is taken, be it of this command or of one around it.           *)
PrefixAssign(n, v) ==
  /\ phase = "prefix"
  /\ \/ \E i \in DOMAIN scopes :
          /\ Finds(i, n)
          /\ scopes[i].type = "Command"
          /\ Assignable(Here(i, n))
          /\ Put(i, n, Exporting(Assigned(Here(i, n), v), TRUE))
     \/ /\ \A i \in DOMAIN scopes : Finds(i, n) => scopes[i].type # "Command"
        /\ Add("Command", n, Exporting(Assigned(New("unset"), v), TRUE))
  /\ prefix' = [prefix EXCEPT ![n] = v]
  /\ UNCHANGED <<phase, allexport>>

(* The same for an element of an array. *)
PrefixAssignElement(n, v) ==
  /\ phase = "prefix"
  /\ \/ \E i \in DOMAIN scopes :
          /\ Finds(i, n)
          /\ scopes[i].type = "Command"
          /\ ElementAssignable(Here(i, n))
          /\ Put(i, n, Exporting(Assigned(Here(i, n), v), TRUE))
     \/ /\ \A i \in DOMAIN scopes : Finds(i, n) => scopes[i].type # "Command"
        /\ Add("Command", n, Exporting(Assigned(New("unset"), v), TRUE))
  /\ prefix' = [prefix EXCEPT ![n] = v]
  /\ UNCHANGED <<phase, allexport>>

(* The scope goes, with its guard, when an assignment fails, *)
(* and after the command however it ends.                    *)
PopCommand ==
  /\ scopes' = SubSeq(scopes, 1, Len(scopes) - 1)
  /\ phase' = "run"
  /\ prefix' = NoPrefix
  /\ UNCHANGED allexport

PrefixFails == phase = "prefix" /\ PopCommand

(* Variant: the guard is not detached and pops the scope too soon. *)
InvokeUndetached == /\ phase = "prefix"
                    /\ scopes' = SubSeq(scopes, 1, Len(scopes) - 1)
                    /\ phase' = "command"
                    /\ UNCHANGED <<prefix, allexport>>

Invoke == /\ phase = "prefix"
          /\ phase' = "command"
          /\ UNCHANGED <<scopes, prefix, allexport>>

(* An external command has run, or a builtin has done all it does. *)
EndCommand == phase \in {"command", "builtin"} /\ PopCommand

CallFunction ==
  /\ phase = "command"
  /\ Len(scopes) < MaxScopes
  /\ scopes' = PushScope("Local")
  /\ phase' = "run"
  /\ prefix' = NoPrefix
  /\ UNCHANGED allexport

(* leave_function, and then the scope of the command that called it. *)
ReturnFromFunction ==
  /\ phase = "run"
  /\ TopType = "Local"
  /\ scopes' = SubSeq(scopes, 1, Len(scopes) - 2)
  /\ UNCHANGED <<phase, prefix, allexport>>

Evaluate == /\ phase = "command"
            /\ phase' = "run"
            /\ prefix' = NoPrefix
            /\ UNCHANGED <<scopes, allexport>>

EndEvaluate == phase = "run" /\ TopType = "Command" /\ PopCommand

---------------------------------------------------------------------------
(* The builtins that change variables.  A builtin may be given several    *)
(* names: each is a step, and EndCommand follows the last.                *)

InBuiltin == /\ phase \in {"command", "builtin"}
             /\ phase' = "builtin"
             /\ prefix' = NoPrefix

(* export and export -n, with a name: one that is not there is passed over. *)
Export(n, on) ==
  /\ InBuiltin
  /\ \E i \in DOMAIN scopes : /\ Finds(i, n)
                              /\ Put(i, n, Exporting(Here(i, n), on))
  /\ UNCHANGED allexport

ExportAssign(n, v, on) ==
  /\ InBuiltin
  /\ \/ \E i \in DOMAIN scopes :
          /\ Finds(i, n)
          /\ Assignable(Here(i, n))
          /\ Put(i, n, Exporting(Assigned(Here(i, n), v), on))
     \/ /\ Missing(n)
        /\ Add("Global", n, Exporting(Assigned(New("unset"), v), on))
  /\ UNCHANGED allexport

(* What declare, local and readonly are asked for: -a or -A; -x, +x or     *)
(* neither; a value or none; -r.  (+r never succeeds in changing a thing.) *)
Verbs == {"declare", "declare -g", "local", "readonly"}

Request == [array : BOOLEAN, export : {"on", "off", "keep"},
            value : {"none", "scalar", "array"}, readonly : BOOLEAN]

ASSUME EnvAssumption == /\ Nothing \notin Value
                        /\ MaxScopes \in Nat
                        /\ Requests \subseteq Request

Wants(q, var) == IF q.export = "keep" THEN var.exported ELSE q.export = "on"

(* To an array, which is then set, and the attributes applied before the *)
(* value is assigned.                                                     *)
Prepared(q, var, v) ==
  Exporting(IF q.array /\ var.kind = "unset" THEN Assigned(var, v) ELSE var,
            Wants(q, var))

(* A variable that exists: what was done stays when the value is refused. *)
Redeclared(verb, q, var, v) ==
  LET before == Prepared(q, var, v)
      after  == IF q.value = "none" THEN before ELSE Assigned(before, v)
  IN  IF q.value # "none" /\ ~Assignable(before) THEN before
      ELSE [after EXCEPT !.readonly = @ \/ q.readonly \/ verb = "readonly"]

Declared(verb, q, v) ==
  LET var == IF q.value = "none" THEN New("unset") ELSE Assigned(New("unset"), v)
  IN  [var EXCEPT
        !.exported = \/ q.export = "on"
                     \/ allexport /\ ~q.array /\ q.value # "array",
        !.readonly = q.readonly \/ verb = "readonly"]

MakesLocal(verb) == verb = "local" \/ (verb = "declare" /\ InFunction)

(* process_declaration.  `local` outside a function is refused before. *)
Declare(n, verb, q, v) ==
  /\ InBuiltin
  /\ verb = "local" => InFunction
  /\ \/ \E i \in DOMAIN scopes :
          /\ IF MakesLocal(verb) THEN FindsLocal(i, n) ELSE Finds(i, n)
          /\ Put(i, n, Redeclared(verb, q, Here(i, n), v))
     \/ /\ IF MakesLocal(verb) THEN MissingLocal(n) ELSE Missing(n)
        /\ Add(IF MakesLocal(verb) THEN "Local" ELSE "Global", n,
               Declared(verb, q, v))
  /\ UNCHANGED allexport

(* Variant: a readonly variable can be removed. *)
UnsetAny(n) ==
  /\ InBuiltin
  /\ \E i \in DOMAIN scopes :
       /\ Finds(i, n)
       /\ Put(i, n, New(IF TopOf(i, "Local") THEN "unset" ELSE "absent"))
  /\ UNCHANGED allexport

(* unset: a variable of the current function leaves a placeholder. *)
Unset(n) ==
  /\ InBuiltin
  /\ \E i \in DOMAIN scopes :
       /\ Finds(i, n)
       /\ Assignable(Here(i, n))
       /\ Put(i, n, New(IF TopOf(i, "Local") THEN "unset" ELSE "absent"))
  /\ UNCHANGED allexport

(* unset name[index] *)
UnsetElement(n, v) ==
  /\ InBuiltin
  /\ \E i \in DOMAIN scopes :
       /\ Finds(i, n)
       /\ Here(i, n).kind = "set"
       /\ Put(i, n, Assigned(Here(i, n), v))
  /\ UNCHANGED allexport

SetAllexport(on) == InBuiltin /\ allexport' = on /\ UNCHANGED scopes

---------------------------------------------------------------------------
Statement == \E n \in Name, v \in Value :
               \/ AssignElement(n, v) \/ Update(n, v) \/ UpdateElement(n, v)
               \/ \E scalar \in BOOLEAN : Assign(n, scalar, v)

Prefix == \E n \in Name, v \in Value :
            PrefixAssign(n, v) \/ PrefixAssignElement(n, v)

Builtin == \E n \in Name :
             \/ Unset(n)
             \/ \E on \in BOOLEAN : Export(n, on)
             \/ \E v \in Value :
                  \/ UnsetElement(n, v)
                  \/ \E on \in BOOLEAN : ExportAssign(n, v, on)
                  \/ \E verb \in Verbs, q \in Requests : Declare(n, verb, q, v)

Control == \/ StartCommand \/ PrefixFails \/ Invoke \/ EndCommand
           \/ CallFunction \/ ReturnFromFunction
           \/ Evaluate \/ EndEvaluate

Next == \/ Statement \/ Prefix \/ Builtin \/ Control
        \/ \E on \in BOOLEAN : SetAllexport(on)
        \/ \E n \in Name, v \in Value : Coproc(n, v)

Spec == Init /\ [][Next]_vars

---------------------------------------------------------------------------
(* Properties *)

(* The stack starts with the one Global scope, every Local scope stands on *)
(* the Command scope of the call that made it, and while a command is      *)
(* being run its own scope is the innermost.                               *)
TypeOK ==
  /\ scopes \in Seq(Scope)
  /\ phase \in Phases
  /\ prefix \in [Name -> Value \cup {Nothing}]
  /\ allexport \in BOOLEAN
  /\ Len(scopes) > 0
  /\ \A i \in DOMAIN scopes :
       /\ scopes[i].type = "Global" <=> i = 1
       /\ scopes[i].type = "Local" => i > 1 /\ scopes[i - 1].type = "Command"
  /\ phase # "run" => TopType = "Command"

(* The global variable of a coprocess, which replaces what is there, be it *)
(* readonly or hidden.                                                     *)
Replaced(i, n) == i = 1 /\ \E v \in Value : Coproc(n, v)

(* A readonly variable stays in its scope, readonly, for as long as the    *)
(* scope lasts: no assignment, declaration, removal or command removes it  *)
(* or puts another variable in its place, coproc excepted.                 *)
ReadonlyStays ==
  [][\A i \in DOMAIN scopes, n \in Name :
       i \in DOMAIN scopes' /\ Here(i, n).readonly
         => \/ /\ scopes'[i].map[n].readonly
               /\ scopes'[i].map[n].kind # "absent"
            \/ Replaced(i, n)]_vars

(* Nothing changes a variable that another of the name hides, except that  *)
(* a declaration of a local looks past the assignments before it, and that *)
(* coproc sets the global variable wherever it is run.                     *)
HiddenUntouched ==
  [][\A i \in DOMAIN scopes, n \in Name :
       i \in DOMAIN scopes' /\ scopes'[i].map[n] # Here(i, n)
         => \/ \A j \in i + 1 .. Len(scopes) :
                 Bound(j, n) => TopOf(i, "Local") /\ scopes[j].type = "Command"
            \/ Replaced(i, n)]_vars

(* iter_exported: the innermost of the exported bindings of a name. *)
Exports(i, n) ==
  /\ i \in DOMAIN scopes
  /\ Bound(i, n) /\ Here(i, n).exported
  /\ \A j \in i + 1 .. Len(scopes) : ~(Bound(j, n) /\ Here(j, n).exported)

(* A command finds in its environment what was assigned before it, however *)
(* the name is bound in the scopes around it.                              *)
PrefixReachesChild ==
  phase = "command" =>
    \A n \in Name : prefix[n] # Nothing =>
      \E i \in DOMAIN scopes : /\ Exports(i, n)
                              /\ Here(i, n).kind = "set"
                              /\ Here(i, n).value = prefix[n]
============================================================================
