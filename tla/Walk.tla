-------------------------------- MODULE Walk --------------------------------
(***************************************************************************)
(* The recursive walk of find, grep -r and chmod -R                        *)
(* (brush-vfs/src/walk.rs) over a namespace that other processes change    *)
(* while it runs.                                                          *)
(*                                                                         *)
(* The walk keeps open directories (dir.rs), which stay the same directory *)
(* whatever happens to their names.  So a directory has an identity here,  *)
(* and a handle is that identity; where it lies is looked up in the trees  *)
(* of Namespace when the handle is used.  One call of `next` takes several *)
(* steps: an entry is stat'ed, a link followed, a directory opened, its    *)
(* names read, and the trees may change between any two of them.           *)
(*                                                                         *)
(* An entry's path is kept relative to the root of the walk.  The names of *)
(* a directory are taken in any order, sorted or not.                      *)
(***************************************************************************)
EXTENDS Namespace

CONSTANTS
  Root,        \* the virtual path the walk is asked for
  Opts,        \* the options it may have
  Device,      \* the file system of each directory
  HostData,    \* the host trees there may be at the beginning
  Places,      \* where another process may put something, and
  Targets,     \* the links it may put there
  MaxChanges   \* bound of the model: the changes it makes

Options == [min : Nat, max : Nat, follow_links : BOOLEAN,
            follow_root_links : BOOLEAN, same_file_system : BOOLEAN,
            contents_first : BOOLEAN]

Directory(id) == [kind |-> "dir", id |-> id]

(* What a host keeps: whatever is there lies in a directory that is there,  *)
(* and no directory lies in two places.                                    *)
HostTree(t) ==
  /\ DOMAIN t \subseteq Seq(STRING)
  /\ \A s \in DOMAIN t : \A n \in 0..Len(s) : SubSeq(s, 1, n) \in DOMAIN t
  /\ \A s \in DOMAIN t : t[s].kind = "dir" => t[s] = Directory(t[s].id)

OnePlaceEach(trees) ==
  \A m, n \in Mount : \A r \in DOMAIN trees[m], s \in DOMAIN trees[n] :
    Is(trees[m], r, "dir") /\ trees[m][r] = trees[n][s] => m = n /\ r = s

ASSUME WalkAssumption ==
  /\ Root \in Seq(STRING)
  /\ Opts \subseteq Options /\ \A o \in Opts : o.min <= o.max
  /\ Places \subseteq Mount \X Seq(STRING)
  /\ MaxChanges \in Nat
  /\ \A data \in HostData :
       /\ data = [m \in Mount |-> data[m]]
       /\ \A m \in Mount : HostDirectory(data[m])
       /\ \A m \in Mount : \A r \in DOMAIN data[m] :
            /\ data[m][r].kind \in {"dir", "file", "link"}
            /\ Is(data[m], r, "dir") => data[m][r].id \in DOMAIN Device

ASSUME HostAssumption ==
  /\ \A data \in HostData : OnePlaceEach(data) /\ \A m \in Mount : HostTree(data[m])
  /\ \A target \in Targets : target.kind = "link"

VARIABLES
  tree,      \* the host directory of each mount
  opts,      \* the options of the walk
  pc,        \* where the walk is, "ready" between two calls of next
  cur,       \* the entry in hand
  stack,     \* the directories being read, the innermost last
  deferred,  \* deferred_dirs: those to be yielded after their contents
  item,      \* what the last call returned
  seen,      \* the entries and errors returned so far
  skipped,   \* whether the caller has skipped anything
  stable,    \* the paths beneath the root's directory nobody has touched
  beneath,   \* the directories that were beneath the root's at some time, or
             \* beneath one of these
  changes    \* the changes made so far

vars == <<tree, opts, pc, cur, stack, deferred, item, seen, skipped, stable,
          beneath, changes>>
world == <<tree, opts, stable, changes>>
-----------------------------------------------------------------------------
(* Directory capabilities (dir.rs). *)

Subtree(t, r) ==
  LET rels == {SubSeq(s, Len(r) + 1, Len(s)) : s \in Below(t, r)}
  IN  [s \in rels |-> t[r \o s]]

(* What lies beneath an open directory; nothing once it is removed. *)
Under(trees, id) ==
  LET found == UNION {{Subtree(trees[m], r) :
                         r \in {s \in DOMAIN trees[m] : trees[m][s] = Directory(id)}}
                      : m \in Mount}
  IN  IF found = {} THEN <<>> ELSE CHOOSE t \in found : TRUE

EntryNames(id) == {s[1] : s \in {r \in DOMAIN Under(tree, id) : Len(r) = 1}}

Missing == [kind |-> "missing"]

NodeAt(t, r) == IF r \in DOMAIN t THEN t[r] ELSE Missing

(* Dir::symlink_metadata *)
StatAt(id, name) == NodeAt(Under(tree, id), <<name>>)

(* Dir::open_dir: the host follows a link, but not out of the directory. *)
OpenAt(id, name) ==
  LET h == HostWalk(Under(tree, id), <<name>>, TRUE)
  IN  IF StatAt(id, name).kind # "link" THEN StatAt(id, name)
      ELSE IF h.verdict = "ok" THEN NodeAt(Under(tree, id), h.rel) ELSE Missing

(* Vfs::symlink_metadata, metadata and open_dir. *)
StatIn(trees, p, follow) ==
  LET v == Locate(trees, p, follow)
  IN  IF v.verdict = "ok" THEN NodeAt(trees[v.mount], v.rel) ELSE Missing

StatPath(p, follow) == StatIn(tree, p, follow)
-----------------------------------------------------------------------------
Nothing == [kind |-> "nothing"]

Entry(rel, node) == [rel |-> rel, node |-> node, followed |-> FALSE, id |-> None]

IsLink(e) == e.node.kind = "link"
IsDir(e) == e.node.kind = "dir"

\* Variant: the deepest level is left out.
SkippableDeepest(depth) == depth < opts.min \/ depth >= opts.max

Skippable(depth) == depth < opts.min \/ depth > opts.max

Return(what, where) ==
  /\ item' = what
  /\ seen' = seen \cup {what}
  /\ pc' = where
  /\ cur' = Nothing

Yield(e) ==
  Return([kind |-> "entry", rel |-> e.rel, node |-> e.node,
          followed |-> e.followed], "ready")

Fail(why, rel) ==
  Return([kind |-> why, rel |-> rel], IF pc = "start" THEN "done" ELSE "ready")

Continue(where, e) ==
  /\ pc' = where
  /\ cur' = e
  /\ UNCHANGED <<item, seen>>

(* The directories beneath id, itself among them. *)
Beneath(trees, id) ==
  LET t == Under(trees, id)
  IN  {id} \cup {t[r].id : r \in {s \in DOMAIN t : t[s].kind = "dir"}}

Stable(trees) ==
  LET home == StatIn(trees, Root, TRUE)
  IN  IF home.kind = "dir" THEN DOMAIN Under(trees, home.id) ELSE {}

Init ==
  /\ tree \in HostData /\ opts \in Opts
  /\ pc = "start" /\ cur = Nothing /\ stack = <<>> /\ deferred = <<>>
  /\ item = Nothing /\ seen = {} /\ skipped = FALSE
  /\ stable = Stable(tree) /\ beneath = {} /\ changes = 0
-----------------------------------------------------------------------------
(* IntoIter::next *)

Call ==
  /\ pc = "ready"
  /\ Continue("next", cur)
  /\ UNCHANGED <<world, stack, deferred, skipped, beneath>>

(* skip_current_dir, by a caller that has just been given an entry. *)
SkipCurrentDir ==
  /\ pc = "ready" /\ item.kind = "entry" /\ stack # <<>>
  /\ stack' = Front(stack)
  /\ skipped' = TRUE
  /\ Continue("next", cur)
  /\ UNCHANGED <<world, deferred, beneath>>

(* root_entry; a root that cannot be resolved at all ends the same way. *)
RootEntry ==
  /\ pc = "start"
  /\ LET node == StatPath(Root, FALSE)
     IN  IF node = Missing THEN Fail("io", <<>>)
         ELSE Continue("entry", Entry(<<>>, node))
  /\ UNCHANGED <<world, stack, deferred, skipped, beneath>>

(* get_deferred_dir has one to give, be it to the caller or to nobody. *)
\* Variant: the directory being read counts as read.
OwedEarly == opts.contents_first /\ deferred # <<>> /\ Len(stack) <= Len(deferred)

Owed == opts.contents_first /\ Len(stack) < Len(deferred)

Pay ==
  /\ pc = "next" /\ Owed /\ ~Skippable(Len(stack))
  /\ deferred' = Front(deferred)
  /\ Yield(Last(deferred))
  /\ UNCHANGED <<world, stack, skipped, beneath>>

Paid == deferred' = IF Owed THEN Front(deferred) ELSE deferred

Leave ==
  /\ pc = "next" /\ stack # <<>>
  /\ Owed => Skippable(Len(stack))
  /\ Len(stack) > opts.max \/ Last(stack).entries = {}
  /\ stack' = Front(stack)
  /\ Paid
  /\ Continue("next", cur)
  /\ UNCHANGED <<world, skipped, beneath>>

\* Variant: a name that cannot be stat'ed stays among the names to come.
ChildEntryKept(name) ==
  LET node == StatAt(Last(stack).id, name)
      rel == Append(Last(stack).rel, name)
  IN  IF node = Missing THEN Fail("io", rel) /\ UNCHANGED stack
      ELSE /\ Continue("entry", Entry(rel, node))
           /\ stack' = [stack EXCEPT ![Len(stack)].entries = @ \ {name}]

(* child_entry *)
ChildEntry(name) ==
  LET node == StatAt(Last(stack).id, name)
      rel == Append(Last(stack).rel, name)
  IN  /\ stack' = [stack EXCEPT ![Len(stack)].entries = @ \ {name}]
      /\ IF node = Missing THEN Fail("io", rel)
         ELSE Continue("entry", Entry(rel, node))

Take ==
  /\ pc = "next" /\ stack # <<>>
  /\ Owed => Skippable(Len(stack))
  /\ Len(stack) <= opts.max
  /\ \E name \in Last(stack).entries : ChildEntry(name)
  /\ Paid
  /\ UNCHANGED <<world, skipped, beneath>>

Finish ==
  /\ pc = "next" /\ stack = <<>>
  /\ Owed => Skippable(0)
  /\ Paid
  /\ pc' = "done" /\ item' = Nothing
  /\ UNCHANGED <<world, cur, stack, seen, skipped, beneath>>
-----------------------------------------------------------------------------
(* handle_entry *)

Follows(e) == opts.follow_links /\ IsLink(e)

Follow ==
  /\ pc = "entry" /\ Follows(cur)
  /\ LET node == StatPath(Root \o cur.rel, TRUE)
     IN  IF node = Missing THEN Fail("io", cur.rel)
         ELSE Continue("entry", [cur EXCEPT !.node = node, !.followed = TRUE])
  /\ UNCHANGED <<world, stack, deferred, skipped, beneath>>

(* The end of handle_entry. *)
Settle ==
  IF IsDir(cur) /\ opts.contents_first
  THEN deferred' = Append(deferred, cur) /\ Continue("next", Nothing)
  ELSE /\ UNCHANGED deferred
       /\ IF Skippable(Len(cur.rel)) THEN Continue("next", Nothing) ELSE Yield(cur)

RootLink(e) == e.rel = <<>> /\ IsLink(e) /\ opts.follow_root_links

Pass ==
  /\ pc = "entry" /\ ~Follows(cur)
  /\ ~IsDir(cur)
  /\ RootLink(cur) => StatPath(Root, TRUE).kind \notin {"dir", "missing"}
  /\ Settle
  /\ UNCHANGED <<world, stack, skipped, beneath>>

\* Variant: every directory is opened by its path.
OpenChildByPath(e) == StatPath(Root \o e.rel, TRUE)

(* open_child *)
OpenChild(e) ==
  IF stack # <<>> /\ ~e.followed THEN OpenAt(Last(stack).id, Last(e.rel))
  ELSE StatPath(Root \o e.rel, TRUE)

Elsewhere(id) ==
  opts.same_file_system /\ cur.rel # <<>> /\ Device[id] # Device[stack[1].id]

\* Variant: only the directory the link lies in is compared.
ClosesLoopParent(id) == cur.followed /\ stack # <<>> /\ Last(stack).id = id

ClosesLoop(id) == cur.followed /\ \E i \in DOMAIN stack : stack[i].id = id

(* push, up to the checks on the handle. *)
Open ==
  /\ pc = "entry" /\ ~Follows(cur)
  /\ \/ IsDir(cur)
     \/ RootLink(cur) /\ StatPath(Root, TRUE).kind \in {"dir", "missing"}
  /\ LET node == OpenChild(cur)
     IN  IF node.kind # "dir" THEN Fail("io", cur.rel) /\ UNCHANGED deferred
         ELSE IF Elsewhere(node.id) THEN Settle
         ELSE IF ClosesLoop(node.id) THEN Fail("loop", cur.rel) /\ UNCHANGED deferred
         ELSE Continue("list", [cur EXCEPT !.id = node.id]) /\ UNCHANGED deferred
  /\ UNCHANGED <<world, stack, skipped, beneath>>

(* The rest of push. *)
List ==
  /\ pc = "list"
  /\ stack' = Append(stack, [id |-> cur.id, rel |-> cur.rel, followed |-> cur.followed,
                             entries |-> EntryNames(cur.id)])
  /\ beneath' = IF stack = <<>> THEN Beneath(tree, cur.id) ELSE beneath
  /\ Settle
  /\ UNCHANGED <<world, skipped>>
-----------------------------------------------------------------------------
(* Another process renames, removes or makes something on the host. *)

(* What nobody has touched: the root still leads to the same directory, and *)
(* all that lies from there to the path is the same.                       *)
Untouched(trees) ==
  LET home == StatPath(Root, TRUE)
      same(p) == \A n \in 0..Len(p) :
                   NodeAt(Under(trees, home.id), SubSeq(p, 1, n))
                     = NodeAt(Under(tree, home.id), SubSeq(p, 1, n))
  IN  IF \E follow \in BOOLEAN : StatIn(trees, Root, follow) # StatPath(Root, follow) THEN {}
      ELSE {p \in stable : same(p)}

Change(m, outcomes) ==
  \E t \in outcomes :
    LET trees == [tree EXCEPT ![m] = t]
    IN  /\ tree' = trees
        /\ stable' = Untouched(trees)
        /\ beneath' = beneath \cup UNION {Beneath(trees, id) : id \in beneath}

Other ==
  /\ pc # "done" /\ changes < MaxChanges
  /\ changes' = changes + 1
  /\ \/ \E p \in Places : \E r \in DOMAIN tree[p[1]] :
          Change(p[1], HostRename(tree[p[1]], r, p[2]))
     \/ \E p \in Places : Change(p[1], HostDo(tree[p[1]], "remove_dir_all", p[2]))
     \/ \E p \in Places, target \in Targets :
          Absent(tree[p[1]], p[2]) /\ Change(p[1], {With(tree[p[1]], p[2], target)})
  /\ UNCHANGED <<opts, pc, cur, stack, deferred, item, seen, skipped>>

Walker == Call \/ SkipCurrentDir \/ RootEntry \/ Pay \/ Leave \/ Take \/ Finish
            \/ Follow \/ Pass \/ Open \/ List

Ended == pc = "done" /\ UNCHANGED vars

Next == Walker \/ Other \/ Ended

(* The caller goes on until the walk is over: weak fairness of Walker, which *)
(* is enabled until then.                                                  *)
Fairness == []<>(pc = "done") \/ []<><<Walker>>_vars

Spec == Init /\ [][Next]_vars /\ Fairness
-----------------------------------------------------------------------------
(* No path is given twice, and the order holds whatever the caller skips    *)
(* and others change: a directory comes after all that is given from        *)
(* beneath it with contents_first, and before it otherwise.                *)
InOrder ==
  [][pc # "ready" /\ pc' \in {"ready", "done"} /\ item' # Nothing =>
       \A e \in seen :
         /\ e.rel # item'.rel
         /\ IF opts.contents_first
            THEN e.kind = "entry" /\ IsDir(e) => ~IsStrictPrefix(e.rel, item'.rel)
            ELSE ~IsStrictPrefix(item'.rel, e.rel)]_vars

(* "a rename mid-walk unable to redirect the rest of it": a walk that        *)
(* follows no links enters only directories that have been beneath its root *)
(* since it began, or beneath a directory that had been, however they and   *)
(* their ancestors are renamed, replaced or linked between two of its       *)
(* steps.  (What is moved into a directory already moved out of the root is *)
(* entered if the walk holds that directory.)                              *)
StaysBeneath ==
  ~opts.follow_links => \A i \in DOMAIN stack : stack[i].id \in beneath

(* A followed link never leads the walk into a directory it is inside of.   *)
NoLoop ==
  \A i, j \in DOMAIN stack : i < j /\ stack[j].followed => stack[i].id # stack[j].id

(* What the walk is not to give: what lies beyond the depths asked for,     *)
(* beneath a link it is not to follow, or on another file system.          *)
Excused(p) ==
  LET t == Under(tree, StatPath(Root, TRUE).id)
      root == StatPath(Root, FALSE)
  IN  \/ Len(p) \notin opts.min..opts.max
      \/ /\ p # <<>> /\ root.kind # "dir"
         /\ root.kind = "link" => ~opts.follow_links /\ ~opts.follow_root_links
      \/ /\ opts.same_file_system
         /\ \E n \in 1..(Len(p) - 1) : Device[t[SubSeq(p, 1, n)].id] # Device[t[<<>>].id]

(* A link as the root is entered without being deferred; with a minimal     *)
(* depth get_deferred_dir then takes the directories for what they are not, *)
(* and forgets some.                                                       *)
Uneven ==
  /\ opts.contents_first /\ opts.min > 0
  /\ opts.follow_root_links /\ ~opts.follow_links /\ StatPath(Root, FALSE).kind = "link"

(* What was left alone from beginning to end, and is to be given, has been  *)
(* when the walk is over, as an entry or in an error if it is a link,       *)
(* unless the caller skipped something: nothing others do around it makes   *)
(* the walk forget it.                                                     *)
NothingLost ==
  pc = "done" /\ ~skipped /\ ~Uneven =>
    \A p \in stable : Excused(p) \/ \E e \in seen : e.rel = p

(* The walk ends, on cyclic links too. *)
Terminates == <>(pc = "done")
=============================================================================
