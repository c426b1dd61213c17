------------------------------ MODULE MCShell -------------------------------
(***************************************************************************)
(* TLC instances of Shell: two letters, a character without a glyph,       *)
(* commands of one and two letters (one the prefix of another), and texts  *)
(* of a character or two.                                                  *)
(***************************************************************************)
EXTENDS Shell

a == 97
b == 98

Dollar == 36

MCInput       == {a, b, Dollar, NewLine, BackSpace, 9}
MCPrompt      == <<62>>
MCHelp        == <<a>>
MCHelpText    == <<104, NewLine, 104, NewLine>>
MCClear       == <<a, b>>
MCVersion     == <<b>>
MCVersionText == <<118, NewLine>>
MCUnknownText == <<63>>
=============================================================================
