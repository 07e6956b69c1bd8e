--------------------------- MODULE MCLinkControl ---------------------------
(* Small instances of LinkControl for TLC. *)
EXTENDS LinkControl

\* Layout 1 needs no more history than the YAML's leading tdl, layout 2 more.
MCHistory(x) == IF x = 1 THEN 2 ELSE 3
=============================================================================
