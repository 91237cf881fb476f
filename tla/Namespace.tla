------------------------------ MODULE Namespace ------------------------------
(***************************************************************************)
(* How a virtual path finds a file (brush-vfs/src/mount.rs, path.rs and    *)
(* the resolution half of fs.rs).                                          *)
(*                                                                         *)
(* There are two ways.  The host's own walk (cap-std, openat2 beneath a    *)
(* mount's directory) knows nothing of mounts: it follows relative links   *)
(* and denies whatever would leave the directory.  `Vfs::locate` walks the *)
(* virtual path itself, looks every prefix up in the mount table and       *)
(* restarts at the virtual root for an absolute link.  `Vfs::at` takes the *)
(* first where it may and the second where it must.                        *)
(*                                                                         *)
(* A path is the sequence of its components; a target may hold "..".  A    *)
(* mount's host directory is a function from the paths beneath it to what  *)
(* is there; its own root is the empty path.  Components that the grammar  *)
(* of VirtualPath refuses are left out.                                    *)
(***************************************************************************)
EXTENDS Naturals, Sequences, SequencesExt, FiniteSets

CONSTANTS
  Mount,      \* the mounts of the namespace
  At,         \* the mount point of each
  Writable,   \* the mounts of access mode ReadWrite
  MaxHops,    \* links one walk may follow (40)
  None        \* absent value

ASSUME NamespaceAssumption ==
  /\ At \in [Mount -> Seq(STRING)]
  /\ \A m \in Mount : \A i \in DOMAIN At[m] : At[m][i] # ".."
  /\ \A m, n \in Mount : At[m] = At[n] => m = n
  /\ Writable \subseteq Mount
  /\ MaxHops \in Nat
  /\ None \notin Mount

(* True of the strings of TLA+, and not among the rules of the provers.    *)
ASSUME UpAssumption == ".." \in STRING

Dir == [kind |-> "dir"]
File(data) == [kind |-> "file", data |-> data]
Link(abs, to) == [kind |-> "link", abs |-> abs, to |-> to]

Is(t, r, kind) == r \in DOMAIN t /\ t[r].kind = kind

(* What a directory of the host may hold.                                  *)
HostDirectory(t) ==
  /\ DOMAIN t \subseteq Seq(STRING) /\ Is(t, <<>>, "dir")
  /\ \A r \in DOMAIN t :
       /\ r # <<>> => Is(t, Front(r), "dir")
       /\ t[r].kind = "link" => t[r].abs \in BOOLEAN /\ t[r].to \in Seq(STRING)
-----------------------------------------------------------------------------
(* MountTable.                                                             *)

(* The mount governing a path: the one with the longest mount point. *)
Resolve(p) ==
  LET over == {m \in Mount : IsPrefix(At[m], p)}
  IN  IF over = {} THEN None
      ELSE CHOOSE m \in over : \A n \in over : Len(At[n]) <= Len(At[m])

Relative(m, p) == SubSeq(p, Len(At[m]) + 1, Len(p))

HasMountBelow(p) == \E m \in Mount : IsStrictPrefix(p, At[m])

\* Variant: nesting is not recorded.
ShadowsNothing(m) == FALSE

ShadowsNested(m) == HasMountBelow(At[m])
-----------------------------------------------------------------------------
Step == [at : Seq(STRING), todo : Seq(STRING), hops : Nat]

Start(p) == [at |-> <<>>, todo |-> p, hops |-> 0]
Failed(how) == [verdict |-> how]

(* The host's walk beneath one mount's directory t. *)
HostWalk(t, rel, follow) ==
  LET walk[s \in Step] ==
        IF s.todo = <<>> THEN [verdict |-> "ok", rel |-> s.at]
        ELSE LET name == Head(s.todo)
                 rest == Tail(s.todo)
                 here == Append(s.at, name)
             IN  IF ~Is(t, s.at, "dir") THEN Failed("missing")
                 ELSE IF name = ".."
                 THEN IF s.at = <<>> THEN Failed("denied")
                      ELSE walk[[s EXCEPT !.at = Front(@), !.todo = rest]]
                 ELSE IF ~Is(t, here, "link") \/ (rest = <<>> /\ ~follow)
                 THEN walk[[s EXCEPT !.at = here, !.todo = rest]]
                 ELSE IF s.hops = MaxHops THEN Failed("loop")
                 ELSE IF t[here].abs THEN Failed("denied")
                 ELSE walk[[s EXCEPT !.todo = t[here].to \o rest, !.hops = @ + 1]]
  IN  walk[Start(rel)]

\* Variant: a relative link goes on from the virtual root.
LinkBaseRoot(abs, candidate) == <<>>

(* Where the target of the link at `candidate` is read from. *)
LinkBase(abs, candidate) ==
  IF abs \/ candidate = <<>> THEN <<>> ELSE Front(candidate)

(* Vfs::locate.  A prefix that only mount points below it bring about is    *)
(* stepped through, but never the root; components that are not there are   *)
(* passed over.                                                            *)
Locate(tree, p, follow) ==
  LET walk[s \in Step] ==
        IF s.todo = <<>>
        THEN IF Resolve(s.at) = None THEN Failed("missing")
             ELSE [verdict |-> "ok", mount |-> Resolve(s.at),
                   rel |-> Relative(Resolve(s.at), s.at), path |-> s.at]
        ELSE LET rest == Tail(s.todo)
                 up == Head(s.todo) = ".."
                 candidate == IF up THEN Front(s.at) ELSE Append(s.at, Head(s.todo))
                 m == Resolve(candidate)
                 r == Relative(m, candidate)
                 on == [s EXCEPT !.at = candidate, !.todo = rest]
             IN  IF up /\ s.at = <<>> THEN Failed("invalid")
                 ELSE IF m = None
                 THEN IF rest # <<>> /\ candidate # <<>> /\ HasMountBelow(candidate)
                      THEN walk[on] ELSE Failed("missing")
                 ELSE IF ~Is(tree[m], r, "link") \/ (rest = <<>> /\ ~follow)
                 THEN walk[on]
                 ELSE IF s.hops = MaxHops THEN Failed("loop")
                 ELSE walk[[at |-> LinkBase(tree[m][r].abs, candidate),
                            todo |-> tree[m][r].to \o rest,
                            hops |-> s.hops + 1]]
  IN  walk[Start(p)]
-----------------------------------------------------------------------------
(* What the host does to the tree t of one mount: the trees that may result, *)
(* none where it fails.                                                    *)

Absent(t, r) == r # <<>> /\ r \notin DOMAIN t /\ Is(t, Front(r), "dir")
Below(t, r) == {s \in DOMAIN t : IsPrefix(r, s)}
Without(t, gone) == [s \in DOMAIN t \ gone |-> t[s]]
With(t, r, node) == [s \in DOMAIN t \cup {r} |-> IF s = r THEN node ELSE t[s]]

HostDo(t, op, r) ==
  CASE op \in {"open_with", "copy"} ->
         IF Absent(t, r) \/ Is(t, r, "file") THEN {With(t, r, File("new"))} ELSE {}
    [] op \in {"set_permissions", "set_times"} ->
         IF Is(t, r, "file") THEN {With(t, r, File("new"))} ELSE {}
    [] op = "create_dir" -> IF Absent(t, r) THEN {With(t, r, Dir)} ELSE {}
    [] op = "remove_file" ->
         IF Is(t, r, "file") \/ Is(t, r, "link") THEN {Without(t, {r})} ELSE {}
    [] op = "remove_dir" ->
         IF r # <<>> /\ Is(t, r, "dir") /\ Below(t, r) = {r} THEN {Without(t, {r})} ELSE {}
    [] op = "remove_dir_all" ->
         IF r # <<>> /\ Is(t, r, "dir") THEN {Without(t, Below(t, r))} ELSE {}

(* Everything below r moves with it; what was at the destination is gone. *)
Move(t, r, to) ==
  LET moved(s) == to \o SubSeq(s, Len(r) + 1, Len(s))
      origin(s) == r \o SubSeq(s, Len(to) + 1, Len(s))
  IN  [s \in (DOMAIN t \ Below(t, r)) \cup {moved(b) : b \in Below(t, r)} |->
         IF IsPrefix(to, s) THEN t[origin(s)] ELSE t[s]]

HostRename(t, r, to) ==
  IF /\ r \in DOMAIN t /\ r # <<>> /\ ~IsPrefix(r, to)
     /\ \/ Absent(t, to)
        \/ to # <<>> /\ to \in DOMAIN t /\ Below(t, to) = {to}
             /\ (Is(t, r, "dir") <=> Is(t, to, "dir"))
  THEN {Move(t, r, to)} ELSE {}

(* The new name of a link is the same link; file contents are not shared    *)
(* here, which no property looks at.                                       *)
HostLink(t, r, to) ==
  IF r \in DOMAIN t /\ ~Is(t, r, "dir") /\ Absent(t, to) THEN {With(t, to, t[r])} ELSE {}
=============================================================================
