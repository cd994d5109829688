----------------------------- MODULE MCBrowser -----------------------------
(***************************************************************************)
(* Two requests, one sensitive value and one worker, so that jobs queue.   *)
(* The value is in the message, in a file, in another format, or in        *)
(* nothing that is inspected.                                              *)
(***************************************************************************)
EXTENDS BrowserRequest

CONSTANTS r1, r2, v

Two == {r1, r2}
One == {v}

Body(shape, text, files) == [shape |-> shape, text |-> text, files |-> files]

Kinds ==
  {Body("prose", One, {}), Body("prose", {}, One), Body("parts", One, {}),
   Body("silent", {}, {})}

=============================================================================
