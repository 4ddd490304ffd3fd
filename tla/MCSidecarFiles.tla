---------------------------- MODULE MCSidecarFiles ----------------------------
(***************************************************************************)
(* The instance of SidecarFiles: two places for the workspace, of different *)
(* depth; scripts of one name in the workspace, beside the profile and in a *)
(* directory of tools; every way to name them, and ways out.                *)
(***************************************************************************)
EXTENDS SidecarFiles

SomeCheckouts == {<<"a">>, <<"b", "c">>}
SomePlaces == {<<"s.py">>, <<"profiles", "s.py">>, <<"tools", "s.py">>}
SomeDirectories == {<<>>, <<"profiles">>, <<"tools">>}
Elsewhere == <<"elsewhere">>
AnySpelling == {"absolute", "from_workspace", "bare"}

Script == Relative(<<"s.py">>)
SomeArgs == {Script, Relative(<<".", "..", "tools", "s.py">>)}

Up(n, parts) == Relative([i \in 1 .. n |-> ".."] \o parts)
SomeWorkingDirs ==
  {Relative(<<".">>), Up(1, <<>>), Up(1, <<"tools">>), Relative(<<"tools">>),
   Relative(<<"none", "..", ".">>), Up(2, <<"elsewhere">>), Up(2, <<"a", "tools">>),
   Up(5, <<>>), Absolute(<<"elsewhere">>), Absolute(<<"a", "tools">>), NoDir}
=============================================================================
