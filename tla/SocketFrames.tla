---------------------------- MODULE SocketFrames ----------------------------
(***************************************************************************)
(* What AprilAire's socket can say: vendor/events.py.  A text is known by  *)
(* its shape, and Decode gives the kind of frame the shape stands for.     *)
(***************************************************************************)

\* The shapes of a text, after strip().
Text == {"pong", "ok", "quoted_subscribed", "blank", "not_json", "object",
         "object_forbidden", "object_subscribed", "list_of_objects", "empty_list",
         "mixed_list", "scalar"}

Kind == {"PONG", "SUBSCRIBED", "FORBIDDEN", "DATA_BATCH", "PROTOCOL_ERROR"}

\* An object with a "message" other than the two acknowledgements is data, and
\* so is the empty list; neither is an acknowledgement.
Decode(text) ==
    CASE text = "pong" -> "PONG"
      [] text \in {"ok", "quoted_subscribed", "object_subscribed"} -> "SUBSCRIBED"
      [] text = "object_forbidden" -> "FORBIDDEN"
      [] text \in {"object", "list_of_objects", "empty_list"} -> "DATA_BATCH"
      [] OTHER -> "PROTOCOL_ERROR"
=============================================================================
