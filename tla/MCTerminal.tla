----------------------------- MODULE MCTerminal -----------------------------
(***************************************************************************)
(* TLC instance of Terminal: a letter, Enter, Backspace, Shift and the     *)
(* prefix, on a framebuffer narrower than the longest line.                *)
(***************************************************************************)
EXTENDS Terminal

a == 97

MCScancodes == {\h1E, \h1C, \h0E, \h2A, \hE0}

MCPrompt      == <<62>>
MCHelp        == <<a>>
MCHelpText    == <<104, 10>>
MCClear       == <<a, a>>
MCVersion     == <<a - 32>>
MCVersionText == <<118, 10>>
MCUnknownText == <<63>>
=============================================================================
