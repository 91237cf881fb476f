--------------------------------- MODULE Vfs ---------------------------------
(***************************************************************************)
(* The virtual file operations that change something                       *)
(* (brush-vfs/src/fs.rs), called by several processes that hold the same   *)
(* namespace: a shell and the children it has handed its session to.       *)
(*                                                                         *)
(* An operation resolves its paths and then asks the host; another process *)
(* may change the tree in between.  A walk is taken as one step, and so is *)
(* what the host does with a located path.  The host's operations are      *)
(* modelled from their use: each resolves beneath the mount's directory    *)
(* once more, then changes one mount's tree or fails.                      *)
(***************************************************************************)
EXTENDS Namespace

CONSTANTS
  Proc,       \* processes that hold the namespace
  Paths,      \* the virtual paths they call with
  Targets,    \* the link targets they call with
  HostData,   \* the host trees there may be at the beginning
  MaxCalls    \* bound of the model: calls altogether

ASSUME VfsAssumption ==
  /\ Paths \subseteq Seq(STRING)
  /\ \A target \in Targets : target.abs \in BOOLEAN /\ target.to \in Seq(STRING)
  /\ MaxCalls \in Nat
  /\ \A data \in HostData :
       /\ data = [m \in Mount |-> data[m]]
       /\ \A m \in Mount : HostDirectory(data[m])

VARIABLES
  tree,       \* the host directory of each mount
  job,        \* what each process has located and not yet done
  calls       \* the calls made so far

vars == <<tree, job, calls>>

(* Operations that go through `Vfs::at`: whether they ask it to follow a    *)
(* final link, and whether the host is asked to.                           *)
AtOps == {"open_with", "create_dir", "remove_file", "remove_dir", "remove_dir_all",
          "set_permissions", "set_times"}
AtFollows(op) == op \in {"open_with", "set_permissions"}
HostFollows(op) == op \in {"open_with", "set_permissions", "set_times", "copy"}

Init ==
  /\ tree \in HostData
  /\ job = [p \in Proc |-> None]
  /\ calls = 0
-----------------------------------------------------------------------------
(* The effect, in mount m, of an operation on a located path. *)
Effect(m, op, rel) ==
  LET h == HostWalk(tree[m], rel, HostFollows(op))
  IN  IF h.verdict = "ok" THEN HostDo(tree[m], op, h.rel) ELSE {}

(* The effect of an operation on two paths; neither is followed at its end. *)
Effect2(m, op, rel, to) ==
  LET g == HostWalk(tree[m], rel, FALSE)
      h == HostWalk(tree[m], to, FALSE)
  IN  IF g.verdict # "ok" \/ h.verdict # "ok" THEN {}
      ELSE IF op = "rename" THEN HostRename(tree[m], g.rel, h.rel)
      ELSE HostLink(tree[m], g.rel, h.rel)

(* The operation takes effect, or fails and changes nothing. *)
Becomes(m, outcomes) ==
  IF outcomes = {} THEN UNCHANGED tree
  ELSE \E t \in outcomes : tree' = [tree EXCEPT ![m] = t]
-----------------------------------------------------------------------------
Call == calls < MaxCalls /\ calls' = calls + 1
Idle(p) == job[p] = None
Plan(p, what) == job' = [job EXCEPT ![p] = what]
Done(p) == job' = [job EXCEPT ![p] = None]

(* Vfs::at, the whole path to the host in one step.  A refusal, the mount's *)
(* own or the host's, is the only outcome that is not final.               *)
Direct(op, q) ==
  LET d == Resolve(q)
  IN  /\ d # None /\ ~ShadowsNested(d) /\ d \in Writable
      /\ HostWalk(tree[d], Relative(d, q), HostFollows(op)).verdict # "denied"

AtDirect(p, op, q) ==
  /\ Idle(p) /\ Call
  /\ Direct(op, q)
  /\ Becomes(Resolve(q), Effect(Resolve(q), op, Relative(Resolve(q), q)))
  /\ UNCHANGED job

AtLocate(p, op, q) ==
  /\ Idle(p) /\ Call
  /\ Resolve(q) # None /\ ~Direct(op, q)
  /\ LET v == Locate(tree, q, AtFollows(op))
     IN  v.verdict = "ok" /\ Plan(p, [op |-> op, on |-> v.mount, rel |-> v.rel, named |-> q])
  /\ UNCHANGED tree

\* Variant: the access mode is that of the mount the caller named.
AtPerformNamed(p) ==
  /\ ~Idle(p) /\ job[p].op \in AtOps
  /\ Becomes(job[p].on, IF Resolve(job[p].named) \in Writable
                        THEN Effect(job[p].on, job[p].op, job[p].rel) ELSE {})
  /\ Done(p)
  /\ UNCHANGED calls

(* The write check is on the located mount, not on the one that was named. *)
AtPerform(p) ==
  /\ ~Idle(p) /\ job[p].op \in AtOps
  /\ Becomes(job[p].on, IF job[p].on \in Writable
                        THEN Effect(job[p].on, job[p].op, job[p].rel) ELSE {})
  /\ Done(p)
  /\ UNCHANGED calls
-----------------------------------------------------------------------------
(* stored_target_stays_in_mount: no step of the target climbs above the     *)
(* mount's root.                                                           *)
StaysInMount(link, stored) ==
  ~stored.abs /\
  \A i \in 1..Len(stored.to) :
    LET ups == Cardinality({k \in 1..i : stored.to[k] = ".."})
    IN  2 * ups <= (IF link = <<>> THEN 0 ELSE Len(link) - 1) + i

(* rename: both ends in one writable mount, and a link only where its       *)
(* target still stays.                                                     *)
RenameLocate(p, q, to) ==
  /\ Idle(p) /\ Call
  /\ LET f == Locate(tree, q, FALSE)
         g == Locate(tree, to, FALSE)
     IN  /\ f.verdict = "ok" /\ g.verdict = "ok"
         /\ f.mount = g.mount /\ f.mount \in Writable
         /\ Is(tree[f.mount], f.rel, "link") => StaysInMount(g.rel, tree[f.mount][f.rel])
         /\ Plan(p, [op |-> "rename", on |-> f.mount, rel |-> f.rel, to |-> g.rel])
  /\ UNCHANGED tree

RenamePerform(p) ==
  /\ ~Idle(p) /\ job[p].op = "rename"
  /\ Becomes(job[p].on, Effect2(job[p].on, "rename", job[p].rel, job[p].to))
  /\ Done(p)
  /\ UNCHANGED calls

(* hard_link: both ends in one mount. *)
HardLinkLocate(p, q, to) ==
  /\ Idle(p) /\ Call
  /\ LET f == Locate(tree, q, FALSE)
         g == Locate(tree, to, FALSE)
     IN  /\ f.verdict = "ok" /\ g.verdict = "ok"
         /\ f.mount = g.mount /\ g.mount \in Writable
         /\ Plan(p, [op |-> "hard_link", on |-> f.mount, rel |-> f.rel, to |-> g.rel])
  /\ UNCHANGED tree

HardLinkPerform(p) ==
  /\ ~Idle(p) /\ job[p].op = "hard_link"
  /\ Becomes(job[p].on, Effect2(job[p].on, "hard_link", job[p].rel, job[p].to))
  /\ Done(p)
  /\ UNCHANGED calls

(* copy: the source is followed by the namespace, the destination by the    *)
(* host.                                                                   *)
CopyLocate(p, q, to) ==
  /\ Idle(p) /\ Call
  /\ LET f == Locate(tree, q, TRUE)
         g == Locate(tree, to, FALSE)
     IN  /\ f.verdict = "ok" /\ g.verdict = "ok"
         /\ g.mount \in Writable
         /\ Plan(p, [op |-> "copy", from |-> f.mount, source |-> f.rel,
                     on |-> g.mount, rel |-> g.rel])
  /\ UNCHANGED tree

CopyPerform(p) ==
  /\ ~Idle(p) /\ job[p].op = "copy"
  /\ LET h == HostWalk(tree[job[p].from], job[p].source, TRUE)
     IN  Becomes(job[p].on,
                 IF h.verdict = "ok" /\ Is(tree[job[p].from], h.rel, "file")
                 THEN Effect(job[p].on, "copy", job[p].rel) ELSE {})
  /\ Done(p)
  /\ UNCHANGED calls
-----------------------------------------------------------------------------
(* VirtualPath::resolve: the target normalized against a directory, None    *)
(* where it climbs out of the namespace.                                   *)
Landing(base, target) ==
  LET go[i \in 0..Len(target.to)] ==
        IF i = 0 THEN IF target.abs THEN <<>> ELSE base
        ELSE IF go[i - 1] = None THEN None
        ELSE IF target.to[i] # ".." THEN Append(go[i - 1], target.to[i])
        ELSE IF go[i - 1] = <<>> THEN None ELSE Front(go[i - 1])
  IN  go[Len(target.to)]

Parent(p) == IF p = <<>> THEN <<>> ELSE Front(p)

\* Variant: the target is stored relative to the mount's root.
RelativeFromRoot(link, target) == Link(FALSE, target)

(* relative_from: up from the link's directory to what it shares with the   *)
(* target, then down.                                                      *)
RelativeFrom(link, target) ==
  LET shared == Len(LongestCommonPrefix({Parent(link), target}))
  IN  Link(FALSE, [i \in 1..(Len(Parent(link)) - shared) |-> ".."]
                    \o SubSeq(target, shared + 1, Len(target)))

(* What `symlink` would store at q for a target, None where it refuses. *)
Stored(q, target) ==
  LET link == Locate(tree, q, FALSE)
      landing == Landing(Parent(link.path), target)
      lexical == Relative(Resolve(landing), landing)
      followed == Locate(tree, landing, TRUE)
  IN  IF /\ link.verdict = "ok" /\ link.mount \in Writable
         /\ landing # None /\ Resolve(landing) = link.mount
         /\ followed.verdict = "ok" /\ followed.mount = link.mount
         /\ StaysInMount(link.rel, RelativeFrom(link.rel, lexical))
      THEN [op |-> "symlink", on |-> link.mount, rel |-> link.rel, landing |-> landing,
            node |-> RelativeFrom(link.rel, lexical)]
      ELSE None

SymlinkLocate(p, q, target) ==
  /\ Idle(p) /\ Call
  /\ Stored(q, target) # None
  /\ Plan(p, Stored(q, target))
  /\ UNCHANGED tree

SymlinkPerform(p) ==
  /\ ~Idle(p) /\ job[p].op = "symlink"
  /\ LET t == tree[job[p].on]
         h == HostWalk(t, job[p].rel, FALSE)
     IN  Becomes(job[p].on, IF h.verdict = "ok" /\ Absent(t, h.rel)
                            THEN {With(t, h.rel, job[p].node)} ELSE {})
  /\ Done(p)
  /\ UNCHANGED calls
-----------------------------------------------------------------------------
Perform(p) ==
  \/ AtPerform(p) \/ RenamePerform(p) \/ HardLinkPerform(p)
  \/ CopyPerform(p) \/ SymlinkPerform(p)

Quiet == calls = MaxCalls /\ (\A p \in Proc : Idle(p)) /\ UNCHANGED vars

Next ==
  \/ \E p \in Proc, q \in Paths :
       \/ \E op \in AtOps : AtDirect(p, op, q) \/ AtLocate(p, op, q)
       \/ \E to \in Paths : RenameLocate(p, q, to) \/ HardLinkLocate(p, q, to)
                            \/ CopyLocate(p, q, to)
       \/ \E target \in Targets : SymlinkLocate(p, q, target)
  \/ \E p \in Proc : Perform(p)
  \/ Quiet

Spec == Init /\ [][Next]_vars
-----------------------------------------------------------------------------
(* No mount point lies beneath a link of another mount. *)
PointsClear ==
  \A m, n \in Mount : \A q \in Prefixes(At[m]) \ {At[m]} :
    Resolve(q) = n => ~Is(tree[n], Relative(n, q), "link")

(* Wherever `at` hands a path to the host in one step, and the host finds   *)
(* its way, the walk through the mounts finds the same file: the two ways  *)
(* agree, with links of any kind on the path, as long as no mount point    *)
(* lies beneath a link (Vfs::at).                                          *)
FastPathAgrees ==
  PointsClear =>
    \A q \in Paths, follow \in BOOLEAN :
      LET d == Resolve(q)
          h == HostWalk(tree[d], Relative(d, q), follow)
          v == Locate(tree, q, follow)
      IN  d # None /\ ~ShadowsNested(d) /\ h.verdict = "ok" =>
            v.verdict = "ok" /\ v.mount = d /\ v.rel = h.rel

(* A link that `symlink` agrees to make leads the host, if it leads         *)
(* anywhere, where its target led the namespace: "means the same thing     *)
(* whether it is followed inside the sandbox or by whatever copies the     *)
(* workspace afterwards" (symlink, in a mount without others beneath it).  *)
LinkMeansTarget ==
  [][PointsClear =>
       \A p \in Proc :
         LET s == job'[p]
             after == With(tree[s.on], s.rel, s.node)
             h == HostWalk(after, s.rel, TRUE)
             v == Locate([tree EXCEPT ![s.on] = after], s.landing, TRUE)
         IN  Idle(p) /\ s # None /\ s.op = "symlink" /\ ~ShadowsNested(s.on)
               /\ Absent(tree[s.on], s.rel) /\ h.verdict = "ok"
             => v.verdict = "ok" /\ v.mount = s.on /\ v.rel = h.rel]_vars

(* Nothing a process does, by whatever path and whatever the others do in   *)
(* between, changes a read-only mount (require_writable, open_with).       *)
ReadOnlyUntouched ==
  [][\A m \in Mount \ Writable : tree'[m] = tree[m]]_vars

(* fs.rs:2143-2145: "after any accepted sequence, every link in the mount   *)
(* must resolve inside it *on the host*".                                  *)
LinksStayInMount ==
  \A m \in Mount : \A r \in DOMAIN tree[m] :
    Is(tree[m], r, "link") => HostWalk(tree[m], r, TRUE).verdict # "denied"
=============================================================================
