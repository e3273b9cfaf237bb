-------------------------- MODULE MC_TemplateFiles --------------------------
(* Two template files and two contents.                                   *)
EXTENDS TemplateFiles

CONSTANTS f1, f2, c1, c2, broken

MCFiles == {f1, f2}
MCContents == {c1, c2}
MCUnreadable == {broken}
MCNoUnreadable == {}
=============================================================================
