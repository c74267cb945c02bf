----------------------------- MODULE MCDesktop -----------------------------
(* Two clients and two invocations of set_mcp_settings, which are alike.     *)
EXTENDS DesktopMcp, TLC
Sym == Permutations(Clients) \cup Permutations(Setters)
=============================================================================
