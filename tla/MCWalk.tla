------------------------------- MODULE MCWalk -------------------------------
(* Instances of Walk for TLC: a walk of /w/a, in one of two mounts on file  *)
(* systems of their own.                                                    *)
EXTENDS Walk, TLC

CONSTANTS Outer, Inner

MCAt == Outer :> <<"w">> @@ Inner :> <<"o">>

MCRoot == <<"w", "a">>

MCDevice == [id \in 0..5 |-> IF id = 5 THEN 1 ELSE 0]

(* A directory apart from the one walked, and the other mount. *)
Around(rest) ==
  Outer :> (<<>> :> Directory(0) @@ <<"t">> :> Directory(4) @@ rest)
    @@ Inner :> (<<>> :> Directory(5) @@ <<"x">> :> File("old"))

Plain == Around(<<"a">> :> Directory(1) @@ <<"a", "b">> :> Directory(2)
                  @@ <<"a", "b", "c">> :> Directory(3) @@ <<"a", "b", "f">> :> File("old"))

(* A link that leads above the root, and one to the other mount. *)
Linked == Around(<<"a">> :> Directory(1) @@ <<"a", "b">> :> Directory(2)
                   @@ <<"a", "b", "c">> :> Link(FALSE, <<"..", "..">>)
                   @@ <<"a", "o">> :> Link(TRUE, <<"o">>))

(* The root of the walk is itself a link. *)
AtLink == Around(<<"a">> :> Link(FALSE, <<"d">>) @@ <<"d">> :> Directory(1)
                   @@ <<"d", "b">> :> Directory(2) @@ <<"d", "c">> :> Directory(3))

MCHost == {Plain, Linked, AtLink}

MCPlaces == {<<Outer, <<"a">>>>, <<Outer, <<"a", "b">>>>, <<Outer, <<"t">>>>, <<Outer, <<"u">>>>,
             <<Outer, <<"u", "t">>>>}

MCTargets == {Link(FALSE, <<>>), Link(FALSE, <<"..", "t">>)}

Option(min, max, flags) ==
  [min |-> min, max |-> max, follow_links |-> "follow" \in flags,
   follow_root_links |-> "root" \in flags, same_file_system |-> "same" \in flags,
   contents_first |-> "first" \in flags]

MCOpts ==
  {Option(0, 9, {"root"}), Option(0, 9, {"root", "first"}),
   Option(1, 1, {"first"}), Option(0, 9, {"follow", "root"}),
   Option(1, 9, {"follow", "same", "first"})}
=============================================================================
