------------------------------- MODULE MCVfs -------------------------------
(* Instances of Vfs for TLC: a read-write mount with a read-only one nested *)
(* in it, whose directory shadows one of the host, and a mount apart.       *)
EXTENDS Vfs, TLC

CONSTANTS Outer, Nested, Apart

MCAt == Outer :> <<"w">> @@ Nested :> <<"w", "t">> @@ Apart :> <<"o">>

MCPaths == {<<"x">>, <<"w", "a">>, <<"w", "t", "a">>, <<"o", "a">>, <<"o", "b">>, <<"o", "a", "b">>}

MCTargets == {Link(FALSE, <<"a">>), Link(FALSE, <<"a", "b">>), Link(FALSE, <<"..", "b">>),
              Link(FALSE, <<"t", "a">>), Link(FALSE, <<"a", "..", "b">>),
              Link(TRUE, <<"w", "t">>), Link(TRUE, <<"o", "a">>)}

Plain ==
  LET leaf == File("old")
  IN  Outer :> (<<>> :> Dir @@ <<"a">> :> Dir @@ <<"a", "b">> :> leaf
              @@ <<"t">> :> Dir @@ <<"t", "a">> :> leaf)
      @@ Nested :> (<<>> :> Dir @@ <<"a">> :> leaf)
      @@ Apart :> (<<>> :> Dir @@ <<"a">> :> Dir @@ <<"a", "b">> :> leaf)

(* Host trees without links, and none where the nested mount point lies.    *)
MCPlain == {[Plain EXCEPT ![Outer] = <<>> :> Dir @@ <<"b">> :> Dir]}

MCLinkPaths == {<<"o", "a">>, <<"o", "b">>, <<"o", "a", "b">>, <<"o", "a", "c">>}

Put(data, m, r, node) == [data EXCEPT ![m] = With(Without(@, Below(@, r)), r, node)]

(* Host trees with one link of any kind. *)
Places == {<<Outer, <<"a">>>>, <<Outer, <<"b">>>>, <<Outer, <<"a", "b">>>>,
           <<Apart, <<"b">>>>, <<Apart, <<"a", "b">>>>}
MCOneLink == {Put(Plain, x[1], x[2], target) : x \in Places, target \in MCTargets}

Symmetry == Permutations(Proc)
=============================================================================
