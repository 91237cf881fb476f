------------------------------- MODULE Interp -------------------------------
(***************************************************************************)
(* The command interpreter of brush-core: how one shell runs commands,     *)
(* functions, sourced scripts, subshells, loops, conditions and trap       *)
(* handlers, and how results, errors and requests to leave travel back.    *)
(*                                                                         *)
(* The program being run is left open: a list may hold any commands, a     *)
(* command may be anything and may end in any way.  What is modelled is    *)
(* what the interpreter does with it.  The chain of Rust calls in progress *)
(* is the sequence k of activations, the innermost last; a value travelling*)
(* back along it is ret.  sh is the state of the shell that is running; a  *)
(* subshell is a clone of it, and the shell it was cloned from waits in    *)
(* the activation that started it.                                         *)
(*                                                                         *)
(* All stacks have their top at the end.                                   *)
(***************************************************************************)
EXTENDS Integers, Sequences, FiniteSets

CONSTANTS Modes,      \* how the session runs: "cmdstring", "run", "interactive"
          Signals,    \* the traps a script sets: of "ERR", "DEBUG" and "EXIT"
          Options,    \* the options it toggles: "errexit", "errtrace", "functrace"
          MaxLevels,  \* bound: the largest level a break or continue names
          MaxCalls,   \* max_function_call_depth
          MaxNest,    \* bound: a list starts only among so many activations
          MaxSet      \* bound: the same for setting traps and options

ASSUME InterpAssumption ==
  /\ Modes \subseteq {"cmdstring", "run", "interactive"}
  /\ Signals \subseteq {"ERR", "DEBUG", "EXIT"}
  /\ Options \subseteq {"errexit", "errtrace", "functrace"}
  /\ {MaxLevels, MaxCalls, MaxNest, MaxSet} \subseteq Nat

VARIABLES mode,   \* which of Modes this session is
          stage,  \* "ready", "ending", "exiting", "done" or "failed"
          sh,     \* the shell that is running
          k,      \* the activations in progress
          ret     \* the result on its way to the last of them, or NoRet

vars == <<mode, stage, sh, k, ret>>

---------------------------------------------------------------------------
(* Stacks *)

Push(s, x) == Append(s, x)

Pop(s) == SubSeq(s, 1, Len(s) - 1)

Top == k[Len(k)]

---------------------------------------------------------------------------
(* Results: ExecutionResult, or an error on its way to whoever catches it. *)

Flows == {"normal", "break", "continue", "return", "exit"}

Result == [kind : {"none", "ok", "err"}, code : {0, 1}, flow : Flows,
           levels : 0..MaxLevels]

NoRet == [kind |-> "none", code |-> 0, flow |-> "normal", levels |-> 0]

Ok(code) == [kind |-> "ok", code |-> code, flow |-> "normal", levels |-> 0]

Leave(code, flow, levels) ==
  [kind |-> "ok", code |-> code, flow |-> flow, levels |-> levels]

(* A fatal error asks to exit the shell, another one for nothing. *)
Err(fatal) == [kind |-> "err", code |-> 1, levels |-> 0,
               flow |-> IF fatal THEN "exit" ELSE "normal"]

(* Error::into_result: the error is shown and becomes a result. *)
IntoResult(e) ==
  IF e.kind = "err"
  THEN Leave(e.code, IF mode = "interactive" THEN "normal" ELSE e.flow, 0)
  ELSE e

IsLoopFlow(r) == r.flow \in {"break", "continue"}

(* Variant: the innermost level is counted down as well. *)
DecrementBelow(r) ==
  IF ~IsLoopFlow(r) THEN r ELSE [r EXCEPT !.levels = @ - 1]

(* try_decrement_loop_levels *)
Decrement(r) ==
  IF ~IsLoopFlow(r) THEN r
  ELSE IF r.levels = 0 THEN [r EXCEPT !.flow = "normal"]
  ELSE [r EXCEPT !.levels = @ - 1]

(* A request to return ends at a function or a script. *)
Returned(r) == IF r.flow = "return" THEN [r EXCEPT !.flow = "normal"] ELSE r

---------------------------------------------------------------------------
(* The shell: its CallStack, the types of its environment's scopes, its    *)
(* traps and options, $?, and its depth as a subshell.                     *)

FrameTypes == {"function", "source", "cmdstring", "run", "interactive",
               "ERR", "DEBUG", "EXIT"}

ScopeTypes == {"Global", "Local", "Command"}

Shell == [frames : Seq(FrameTypes), calls : Nat, active : SUBSET Signals,
          blocks : Nat, scopes : Seq(ScopeTypes), traps : SUBSET Signals,
          opts : SUBSET Options, status : {0, 1}, level : Nat]

Fresh == [frames |-> <<>>, calls |-> 0, active |-> {}, blocks |-> 0,
          scopes |-> <<"Global">>, traps |-> {}, opts |-> {}, status |-> 0,
          level |-> 0]

(* Variant: a clone starts with the delivery of traps unblocked. *)
ClonedUnblocked(s) ==
  [s EXCEPT !.active = {}, !.blocks = 0, !.level = @ + 1]

Cloned(s) == [s EXCEPT !.active = {}, !.level = @ + 1]

EnterFunction(s) == [s EXCEPT !.frames = Push(@, "function"), !.calls = @ + 1,
                              !.scopes = Push(@, "Local")]

LeaveFunction(s) == [s EXCEPT !.frames = Pop(@), !.calls = @ - 1,
                              !.scopes = Pop(@)]

EnterSource(s) == [s EXCEPT !.frames = Push(@, "source")]

LeaveSource(s) == [s EXCEPT !.frames = Pop(@)]

EnterTrap(s, sig) == [s EXCEPT !.frames = Push(@, sig),
                               !.active = @ \cup {sig}]

LeaveTrap(s, sig, status) == [s EXCEPT !.frames = Pop(@),
                                       !.active = @ \ {sig},
                                       !.status = status]

EnterCommand(s) == [s EXCEPT !.scopes = Push(@, "Command")]

LeaveCommand(s) == [s EXCEPT !.scopes = Pop(@)]

InFunction(s) == \E i \in DOMAIN s.frames : s.frames[i] = "function"

(* The innermost script on the call stack is a sourced one. *)
InSourced(s) ==
  \E i \in DOMAIN s.frames :
     /\ s.frames[i] = "source"
     /\ \A j \in DOMAIN s.frames : j > i => s.frames[j] # "run"

Inherited(s, sig) ==
  CASE sig = "ERR" -> "errtrace" \in s.opts
    [] sig = "DEBUG" -> "functrace" \in s.opts
    [] OTHER -> TRUE

(* Variant: the handlers in progress are not looked at. *)
DeliveredAgain(s, sig) ==
  /\ s.blocks = 0
  /\ InFunction(s) \/ s.level > 0 => Inherited(s, sig)
  /\ sig \in s.traps

(* The early returns of invoke_trap_handler, in their order. *)
Delivered(s, sig) ==
  /\ sig \notin s.active
  /\ s.blocks = 0
  /\ InFunction(s) \/ s.level > 0 => Inherited(s, sig)
  /\ sig \in s.traps

(* apply_errexit_if_enabled, where the pipeline is not quiet. *)
Errexit(s, quiet, r) ==
  IF "errexit" \in s.opts /\ ~quiet /\ r.code # 0 /\ r.flow = "normal"
  THEN [r EXCEPT !.flow = "exit"]
  ELSE r

---------------------------------------------------------------------------
(* Activations.  A program (Program::execute) and a list (CompoundList)    *)
(* run pipelines one after the other; a program also catches errors.  The  *)
(* list of a brace group or of a case runs as if it stood in its place; an *)
(* arithmetic for is a "for", an until a "while".                          *)

Programs == {"top", "eval", "source", "trap"}

Compounds == {"if", "while", "for"}

Lists == Programs \cup Compounds \cup {"function", "subshell"}

Ops == Lists \cup {"pipe", "simple", "completion"}

Phases == {"body", "cond", "first", "last", "assign", "debug", "run", "running"}

(* What a shell's call stack and environment hold, apart from variables. *)
Stacks(s) == [frames |-> s.frames, calls |-> s.calls, active |-> s.active,
              blocks |-> s.blocks, scopes |-> s.scopes, level |-> s.level]

(* sup is suppress_errexit of the parameters the activation was given,     *)
(* quiet that of the pipeline it is running (its bang included), res the   *)
(* result so far, st the $? a trap saved or the result of a loop's last    *)
(* round, home the shell a subshell was cloned from.  entry remembers the  *)
(* stacks found on the way in; no step depends on it.                      *)
Activation(op, phase, sup) ==
  [op |-> op, phase |-> phase, sup |-> sup, busy |-> "idle",
   quiet |-> FALSE, res |-> Ok(0), sig |-> "none", st |-> 0, home |-> Fresh,
   entry |-> Stacks(sh)]

OnTrap(sig, sup) == [Activation("trap", "body", sup) EXCEPT !.sig = sig,
                                                          !.st = sh.status]

With(a) == [k EXCEPT ![Len(k)] = a]

Idle(ops) == k # <<>> /\ ret = NoRet /\ Top.op \in ops /\ Top.busy = "idle"

Receiving(ops) ==
  k # <<>> /\ ret # NoRet /\ Top.op \in ops /\ Top.busy = "run"

(* The last activation ends with result r and leaves the shell s behind. *)
GiveBack(r, s) ==
  /\ k' = Pop(k)
  /\ ret' = r
  /\ sh' = s
  /\ UNCHANGED <<mode, stage>>

---------------------------------------------------------------------------
(* The session *)

Init ==
  /\ mode \in Modes
  /\ stage = "ready"
  /\ sh = [Fresh EXCEPT !.frames = <<mode>>]
  /\ k = <<>>
  /\ ret = NoRet

(* The command string, the script, or a line typed at the prompt. *)
RunProgram ==
  /\ stage = "ready" /\ k = <<>>
  /\ k' = <<Activation("top", "body", FALSE)>>
  /\ UNCHANGED <<mode, stage, sh, ret>>

EndTop ==
  /\ Idle({"top"})
  /\ k' = <<>>
  /\ stage' = IF mode = "interactive" /\ Top.res.flow # "exit"
              THEN "ready" ELSE "ending"
  /\ UNCHANGED <<mode, sh, ret>>

Eof ==
  /\ mode = "interactive" /\ stage = "ready" /\ k = <<>>
  /\ stage' = "ending"
  /\ UNCHANGED <<mode, sh, k, ret>>

(* A completion function runs with the delivery of traps blocked. *)
Complete ==
  /\ mode = "interactive" /\ stage = "ready" /\ k = <<>>
  /\ sh.calls < MaxCalls
  /\ LET blocked == [sh EXCEPT !.blocks = @ + 1]
         caller == [Activation("completion", "body", FALSE) EXCEPT !.busy = "run"]
     IN /\ k' = <<caller, [Activation("function", "body", FALSE)
                              EXCEPT !.entry = Stacks(blocked)]>>
        /\ sh' = EnterFunction(blocked)
  /\ UNCHANGED <<mode, stage, ret>>

EndCompletion ==
  /\ Receiving({"completion"})
  /\ GiveBack(NoRet, [sh EXCEPT !.blocks = @ - 1])

(* The frame of the session must be on top, or the shell fails without     *)
(* running its exit steps; a script's frame is popped whatever it is.      *)
EndSession ==
  /\ stage = "ending" /\ k = <<>>
  /\ LET own == sh.frames # <<>> /\ sh.frames[Len(sh.frames)] = mode
     IN IF own \/ mode = "run"
        THEN /\ stage' = "exiting"
             /\ sh' = [sh EXCEPT !.frames = Pop(@)]
        ELSE /\ stage' = "failed"
             /\ UNCHANGED sh
  /\ UNCHANGED <<mode, k, ret>>

(* on_exit *)
OnExit ==
  /\ stage = "exiting" /\ k = <<>>
  /\ stage' = "done"
  /\ IF Delivered(sh, "EXIT")
     THEN /\ k' = <<OnTrap("EXIT", FALSE)>>
          /\ sh' = EnterTrap(sh, "EXIT")
     ELSE UNCHANGED <<k, sh>>
  /\ UNCHANGED <<mode, ret>>

(* The process has ended. *)
Ended == stage \in {"done", "failed"} /\ k = <<>> /\ UNCHANGED vars

---------------------------------------------------------------------------
(* Starting the next command of a list, or the command of one element of a *)
(* pipeline.                                                               *)

CanStart ==
  /\ Idle(Lists \cup {"pipe"})
  /\ Top.res.flow = "normal"

CanNest == CanStart /\ Len(k) < MaxNest

(* AndOrList, Pipeline: a pipeline is quiet in a condition, and guarded,   *)
(* that is before && or || or after a bang.                                *)
Starting(guarded) ==
  [Top EXCEPT !.busy = "run", !.res = Ok(0),
              !.quiet = Top.sup \/ Top.phase = "cond"
                          \/ (guarded /\ Top.op # "pipe")]

(* A bare assignment, a test, an arithmetic command, a definition, or a    *)
(* redirection that fails: a result at once.  An expansion that fails: an  *)
(* error.                                                                  *)
AtOnce ==
  /\ CanStart
  /\ \E guarded \in BOOLEAN : k' = With(Starting(guarded))
  /\ ret' \in {Ok(0), Ok(1), Err(FALSE), Err(TRUE)}
  /\ UNCHANGED <<mode, stage, sh>>

(* spawn_async_ao_list_in_task: the rest happens in a clone. *)
Background ==
  /\ CanStart /\ Top.op # "pipe"
  /\ k' = With([Top EXCEPT !.res = Ok(0)])
  /\ UNCHANGED <<mode, stage, sh, ret>>

StartCompound ==
  /\ CanNest
  /\ \E op \in Compounds, guarded \in BOOLEAN :
       LET caller == Starting(guarded)
           phase == IF op \in {"if", "while"} THEN "cond" ELSE "body"
       IN k' = Append(With(caller), Activation(op, phase, caller.quiet))
  /\ UNCHANGED <<mode, stage, sh, ret>>

(* A subshell, or a pipeline of several commands, each in a shell of its   *)
(* own.  The commands of a pipeline are taken one after the other.         *)
StartClone ==
  /\ CanNest
  /\ \E op \in {"subshell", "pipe"}, guarded \in BOOLEAN :
       LET caller == Starting(guarded)
           phase == IF op = "pipe" THEN "first" ELSE "body"
       IN /\ op = "pipe" => Top.op # "pipe"
          /\ k' = Append(With(caller),
                         [Activation(op, phase, caller.quiet) EXCEPT !.home = sh])
  /\ sh' = Cloned(sh)
  /\ UNCHANGED <<mode, stage, ret>>

(* A simple command, its words expanded: a Command scope for its           *)
(* assignments is pushed.                                                  *)
StartSimple ==
  /\ CanStart
  /\ \E guarded \in BOOLEAN :
       LET caller == Starting(guarded)
       IN k' = Append(With(caller), Activation("simple", "assign", caller.quiet))
  /\ sh' = EnterCommand(sh)
  /\ UNCHANGED <<mode, stage, ret>>

---------------------------------------------------------------------------
(* A simple command (execute_command, SimpleCommand::execute) *)

At(phase) == Idle({"simple"}) /\ Top.phase = phase

(* An assignment of the command fails: the guard pops the scope. *)
AssignFails ==
  /\ At("assign")
  /\ \E fatal \in BOOLEAN : GiveBack(IntoResult(Err(fatal)), LeaveCommand(sh))

(* on_preexecute: the DEBUG trap, whose result is ignored. *)
PreExecute ==
  /\ At("assign")
  /\ IF Delivered(sh, "DEBUG")
     THEN /\ k' = Append(With([Top EXCEPT !.phase = "debug", !.busy = "run"]),
                         OnTrap("DEBUG", Top.sup))
          /\ sh' = EnterTrap(sh, "DEBUG")
     ELSE /\ k' = With([Top EXCEPT !.phase = "run"])
          /\ UNCHANGED sh
  /\ UNCHANGED <<mode, stage, ret>>

(* Variant: return is accepted anywhere. *)
OutcomesReturn ==
  {Ok(0), Ok(1)}
    \cup {Leave(code, flow, 0) : code \in {0, 1}, flow \in {"exit", "return"}}

(* What a command that runs no other may return: a status, an error, or a  *)
(* request of exit, return, break and continue.                            *)
Outcomes ==
  {Ok(0), Ok(1)}
    \cup {IntoResult(Err(fatal)) : fatal \in BOOLEAN}
    \cup {Leave(code, "exit", 0) : code \in {0, 1}}
    \cup {Leave(code, "return", 0) :
            code \in IF InFunction(sh) \/ InSourced(sh) THEN {0, 1} ELSE {}}
    \cup {Leave(0, flow, n) :
            flow \in {"break", "continue"}, n \in 0..(MaxLevels - 1)}

(* The error of a builtin run in a shell of its own crosses the task. *)
TaskErrors == IF k[Len(k) - 1].op = "pipe" THEN {Err(FALSE), Err(TRUE)} ELSE {}

Finishes ==
  /\ At("run")
  /\ \E r \in Outcomes \cup TaskErrors : GiveBack(r, LeaveCommand(sh))

(* The trap builtin. *)
SetsTrap ==
  /\ At("run") /\ Len(k) <= MaxSet
  /\ \E sig \in Signals :
       \E traps \in {sh.traps \cup {sig}, sh.traps \ {sig}} :
          GiveBack(Ok(0), [LeaveCommand(sh) EXCEPT !.traps = traps])

(* The set builtin. *)
SetsOption ==
  /\ At("run") /\ Len(k) <= MaxSet
  /\ \E option \in Options :
       \E opts \in {sh.opts \cup {option}, sh.opts \ {option}} :
          GiveBack(Ok(0), [LeaveCommand(sh) EXCEPT !.opts = opts])

(* Variant: a function or a script starts from the default parameters. *)
CallsAnew(op) ==
  Append(With([Top EXCEPT !.phase = "running", !.busy = "run"]),
         Activation(op, "body", FALSE))

Calls(op) ==
  Append(With([Top EXCEPT !.phase = "running", !.busy = "run"]),
         Activation(op, "body", Top.sup))

Evaluates ==
  /\ At("run") /\ Len(k) < MaxNest
  /\ k' = Calls("eval")
  /\ UNCHANGED <<mode, stage, sh, ret>>

Sources ==
  /\ At("run") /\ Len(k) < MaxNest
  /\ k' = Calls("source")
  /\ sh' = EnterSource(sh)
  /\ UNCHANGED <<mode, stage, ret>>

Invokes ==
  /\ At("run")
  /\ IF sh.calls < MaxCalls
     THEN /\ Len(k) < MaxNest
          /\ k' = Calls("function")
          /\ sh' = EnterFunction(sh)
          /\ UNCHANGED <<mode, stage, ret>>
     ELSE GiveBack(IntoResult(Err(FALSE)), LeaveCommand(sh))

(* post_execute pops the Command scope, whatever came back. *)
EndSimple ==
  /\ Receiving({"simple"})
  /\ GiveBack(IntoResult(ret), LeaveCommand(sh))

---------------------------------------------------------------------------
(* The result of a pipeline arrives at its list. *)

Settled(a, r) ==
  [a EXCEPT !.busy = "idle", !.quiet = FALSE, !.res = r]

(* The bang of a pipeline that is quiet, if it has one, inverts the code. *)
Inverted(r) == [r EXCEPT !.code = 1 - @]

EndPipeline ==
  /\ Receiving(Lists) /\ ret.kind = "ok"
  /\ \E r \in {ret} \cup IF Top.quiet THEN {Inverted(ret)} ELSE {} :
     LET after == [sh EXCEPT !.status = r.code]
     IN IF r.code # 0 /\ ~Top.quiet /\ Delivered(after, "ERR")
        THEN /\ k' = Append(With([Top EXCEPT !.busy = "errtrap", !.res = r]),
                            [OnTrap("ERR", Top.quiet) EXCEPT !.st = r.code])
             /\ sh' = EnterTrap(after, "ERR")
        ELSE /\ k' = With(Settled(Top, Errexit(sh, Top.quiet, r)))
             /\ sh' = after
  /\ ret' = NoRet
  /\ UNCHANGED <<mode, stage>>

(* The end of invoke_trap_handler: $? is as before, the result is dropped, *)
(* and whoever fired the trap goes on.                                     *)
EndTrap ==
  /\ Idle({"trap"})
  /\ LET after == LeaveTrap(sh, Top.sig, Top.st)
         resumed(a) ==
           IF a.op = "simple" THEN [a EXCEPT !.phase = "run", !.busy = "idle"]
           ELSE Settled(a, Errexit(after, a.quiet, a.res))
     IN /\ sh' = after
        /\ k' = IF Len(k) = 1 THEN <<>>
                ELSE [Pop(k) EXCEPT ![Len(k) - 1] = resumed(k[Len(k) - 1])]
  /\ UNCHANGED <<mode, stage, ret>>

(* An error arrives at a list.  A program and a subshell turn it into a    *)
(* result; through any other it passes, undoing what it had entered.       *)
CatchError ==
  /\ Receiving(Programs) /\ ret.kind = "err"
  /\ k' = With(Settled(Top, IntoResult(ret)))
  /\ sh' = [sh EXCEPT !.status = ret.code]
  /\ ret' = NoRet
  /\ UNCHANGED <<mode, stage>>

(* Variant: the error of its body returns early from a function. *)
PassErrorEarly ==
  /\ Receiving(Compounds \cup {"function", "subshell"}) /\ ret.kind = "err"
  /\ IF Top.op = "subshell" THEN GiveBack(Ok(ret.code), Top.home)
     ELSE GiveBack(ret, sh)

PassError ==
  /\ Receiving(Compounds \cup {"function", "subshell"}) /\ ret.kind = "err"
  /\ CASE Top.op = "subshell" -> GiveBack(Ok(ret.code), Top.home)
       [] Top.op = "function" -> GiveBack(ret, LeaveFunction(sh))
       [] OTHER -> GiveBack(ret, sh)

---------------------------------------------------------------------------
(* A list has run, or a request to leave has cut it short. *)

EndFunction ==
  /\ Idle({"function"})
  /\ GiveBack(IF IsLoopFlow(Top.res) THEN Err(FALSE) ELSE Returned(Top.res),
              LeaveFunction(sh))

EndEval == Idle({"eval"}) /\ GiveBack(Top.res, sh)

EndSource == Idle({"source"}) /\ GiveBack(Returned(Top.res), LeaveSource(sh))

EndSubshell == Idle({"subshell"}) /\ GiveBack(Ok(Top.res.code), Top.home)

(* wait_for_pipeline_processes_and_update_status: the last result counts. *)
EndElement ==
  /\ Receiving({"pipe"})
  /\ IF ret.kind = "ok" /\ Top.phase = "first"
     THEN \E phase \in {"first", "last"} :
            /\ k' = With([Top EXCEPT !.phase = phase, !.busy = "idle"])
            /\ sh' = Cloned(Top.home)
            /\ ret' = NoRet
            /\ UNCHANGED <<mode, stage>>
     ELSE GiveBack(ret, Top.home)

(* A condition that succeeds leads to its branch, another one to the next  *)
(* condition, to the else branch, or nowhere.                              *)
EndIf ==
  /\ Idle({"if"})
  /\ \/ /\ Top.phase = "body" \/ Top.res.flow # "normal"
        /\ GiveBack(Top.res, sh)
     \/ /\ Top.phase = "cond" /\ Top.res.flow = "normal"
        /\ \E phase \in IF Top.res.code = 0 THEN {"body"} ELSE {"body", "cond"} :
             k' = With([Top EXCEPT !.phase = phase, !.res = Ok(0)])
        /\ UNCHANGED <<mode, stage, sh, ret>>
     \/ /\ Top.phase = "cond" /\ Top.res.flow = "normal" /\ Top.res.code # 0
        /\ GiveBack(Ok(0), [sh EXCEPT !.status = 0])

(* Variant: a loop goes on after an exit. *)
LeavesLoopNot(r) == r.flow \in {"return", "break"}
                      \/ Decrement(r).flow = "continue"

(* The loop goes no further after this result of its body. *)
LeavesLoop(r) == r.flow \in {"return", "exit", "break"}
                   \/ Decrement(r).flow = "continue"

EndWhile ==
  /\ Idle({"while"})
  /\ LET done(r) == GiveBack(r, [sh EXCEPT !.status = r.code])
         next(phase, st) ==
           /\ k' = With([Top EXCEPT !.phase = phase, !.st = st, !.res = Ok(0)])
           /\ sh' = [sh EXCEPT !.status = Top.res.code]
           /\ UNCHANGED <<mode, stage, ret>>
     IN IF Top.phase = "cond"
        THEN IF Top.res.flow # "normal" THEN done(Decrement(Top.res))
             ELSE done(Ok(Top.st)) \/ next("body", Top.st)
        ELSE IF LeavesLoop(Top.res) THEN done(Decrement(Top.res))
             ELSE next("cond", Top.res.code)

(* The words run out, the next one is taken, or it cannot be assigned. *)
EndFor ==
  /\ Idle({"for"})
  /\ \/ GiveBack(Decrement(Top.res), [sh EXCEPT !.status = Top.res.code])
     \/ /\ ~LeavesLoop(Top.res)
        /\ k' = With([Top EXCEPT !.res = Ok(0)])
        /\ UNCHANGED <<mode, stage, sh, ret>>
     \/ ~LeavesLoop(Top.res) /\ GiveBack(Err(FALSE), sh)

---------------------------------------------------------------------------
Session == RunProgram \/ EndTop \/ Eof \/ Complete \/ EndCompletion
             \/ EndSession \/ OnExit \/ Ended

Start == AtOnce \/ Background \/ StartCompound \/ StartClone \/ StartSimple

Simple == AssignFails \/ PreExecute \/ Finishes \/ SetsTrap \/ SetsOption
            \/ Evaluates \/ Sources \/ Invokes \/ EndSimple

End == EndPipeline \/ EndTrap \/ CatchError \/ PassError \/ EndFunction
         \/ EndEval \/ EndSource \/ EndSubshell \/ EndElement
         \/ EndIf \/ EndWhile \/ EndFor

Next == Session \/ Start \/ Simple \/ End

Spec == Init /\ [][Next]_vars

---------------------------------------------------------------------------
(* Properties *)

StackType == [frames : Seq(FrameTypes), calls : Nat, active : SUBSET Signals,
              blocks : Nat, scopes : Seq(ScopeTypes), level : Nat]

ActivationType ==
  [op : Ops, phase : Phases, sup : BOOLEAN, busy : {"idle", "run", "errtrap"},
   quiet : BOOLEAN, res : Result, sig : Signals \cup {"none"}, st : {0, 1},
   home : Shell, entry : StackType]

(* Every variable has its type; in particular no counter of loops, calls   *)
(* or blocks is decremented below zero.                                    *)
TypeOK ==
  /\ mode \in Modes
  /\ stage \in {"ready", "ending", "exiting", "done", "failed"}
  /\ sh \in Shell
  /\ k \in Seq(ActivationType)
  /\ ret \in Result

(* The stacks while an activation runs, from those it found. *)
Within(a) ==
  CASE a.op = "function" -> EnterFunction(a.entry)
    [] a.op = "source" -> EnterSource(a.entry)
    [] a.op = "trap" -> EnterTrap(a.entry, a.sig)
    [] a.op = "simple" -> EnterCommand(a.entry)
    [] a.op = "completion" -> [a.entry EXCEPT !.blocks = @ + 1]
    [] a.op \in {"subshell", "pipe"} -> Cloned(a.entry)
    [] OTHER -> a.entry

(* The stacks between programs: the frame of the session and nothing else. *)
Base ==
  [Stacks(Fresh) EXCEPT !.frames =
     IF stage \in {"ready", "ending"} THEN <<mode>> ELSE <<>>]

(* However commands end (results, errors, requests to leave, traps), the   *)
(* call stack, its counts, the active signals and the scopes are at every  *)
(* moment exactly those of the activations in progress, and a shell that   *)
(* was cloned waits unchanged: what each one entered is left once, in      *)
(* order ("so leave_trap_handler() always runs", "we need to make sure we  *)
(* don't bail early before exiting the function").                         *)
Balanced ==
  /\ Stacks(sh) = IF k = <<>> THEN Base ELSE Within(Top)
  /\ k # <<>> => k[1].entry = Base
  /\ \A i \in 1..(Len(k) - 1) : k[i + 1].entry = Within(k[i])
  /\ \A i \in DOMAIN k :
       k[i].op \in {"subshell", "pipe"} => Stacks(k[i].home) = k[i].entry

(* A trap does not run inside its own handler, directly or through the     *)
(* functions, scripts and other traps the handler runs, unless a new shell *)
(* has been cloned in between.                                             *)
NoSelfNesting ==
  \A i, j \in DOMAIN k :
     i < j /\ k[i].op = "trap" /\ k[j].op = "trap" /\ k[i].sig = k[j].sig
       => \E c \in (i + 1)..(j - 1) : k[c].op \in {"subshell", "pipe"}

(* No trap runs while a completion function does, in clones of the shell   *)
(* neither.                                                                *)
NoTrapInCompletion ==
  \A i, j \in DOMAIN k : k[i].op = "completion" => k[j].op # "trap"

(* Inside a quiet pipeline (a condition, before && or ||, after a bang) the*)
(* ERR trap never runs, however deep the failing command is: through       *)
(* functions, scripts, subshells and handlers of other traps.              *)
QuietStaysQuiet ==
  \A i, j \in DOMAIN k :
     i < j /\ k[i].busy = "run" /\ k[i].quiet
       => ~(k[j].op = "trap" /\ k[j].sig = "ERR")

(* A request to return is only under way below a function or a script, so  *)
(* that it never reaches the end of a program ("return from non-function/  *)
(* script").                                                               *)
ReturnHasTarget ==
  /\ \A i \in DOMAIN k :
       k[i].res.flow = "return"
         => \E j \in 1..i : k[j].op \in {"function", "source"}
  /\ ret.flow = "return" => \E j \in DOMAIN k : k[j].op \in {"function", "source"}

(* An exit has been asked for in the session's own shell, outside handlers *)
(* and completion functions.                                               *)
ExitPending ==
  LET own(n) == \A i \in 1..n :
                  k[i].op \notin {"trap", "subshell", "pipe", "completion"}
  IN \/ ret.kind = "ok" /\ ret.flow = "exit" /\ own(Len(k))
     \/ \E i \in DOMAIN k : k[i].res.flow = "exit" /\ own(i)

(* Such a request is never lost: neither loops, conditions, functions,     *)
(* scripts nor the ERR trap it fires on its way make the shell forget it,  *)
(* and in the end the session ends.                                        *)
ExitSticks == [][ExitPending => ExitPending' \/ stage' = "ending"]_vars

(* Each command of a pipeline has "a separate subshell": like the commands *)
(* of a subshell, it cannot make the shell around it leave a loop, return  *)
(* or exit.                                                                *)
PipelineContained ==
  [][k # <<>> /\ Top.op = "pipe" /\ Len(k') < Len(k) /\ ret'.kind = "ok"
       => ret'.flow = "normal"]_vars

=============================================================================
