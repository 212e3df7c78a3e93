--------------------------- MODULE HttpTranslator ---------------------------
(***************************************************************************)
(* The conversions of internal/bridge/translator.go between the A2A JSON   *)
(* of the HTTP bridge and protobuf.  A message is its role and its parts;  *)
(* a part is its type and a body: the URL of a url part, the text field of *)
(* any other.                                                              *)
(***************************************************************************)
EXTENDS TaskStatus, Sequences

Unspecified == "UNSPECIFIED"

\* httpPartToProto: of a part that is no url the text is kept, whatever its type.
httpPartToProto(p) == IF p.type = "url" THEN p ELSE [type |-> "text", body |-> p.body]

\* protoPartToHTTP: content that is neither text nor url becomes an empty text.
protoPartToHTTP(p) == IF p.type \in {"text", "url"} THEN p ELSE [type |-> "text", body |-> ""]

\* HTTPMessageToProto: any role but "agent" is the user's.
HTTPMessageToProto(m) ==
    [role |-> IF m.role = "agent" THEN "AGENT" ELSE "USER",
     parts |-> [i \in DOMAIN m.parts |-> httpPartToProto(m.parts[i])]]

\* ProtoMessageToHTTP
ProtoMessageToHTTP(m) ==
    [role |-> IF m.role = "AGENT" THEN "agent" ELSE "user",
     parts |-> [i \in DOMAIN m.parts |-> protoPartToHTTP(m.parts[i])]]

\* protoStatusToHTTP
protoStatusToHTTP(s) ==
    CASE s = "SUBMITTED"      -> "submitted"
      [] s = "WORKING"        -> "working"
      [] s = "INPUT_REQUIRED" -> "input-required"
      [] s = "COMPLETED"      -> "completed"
      [] s = "FAILED"         -> "failed"
      [] s = "CANCELED"       -> "canceled"
      [] s = "REJECTED"       -> "rejected"
      [] OTHER                -> "unknown"

\* HTTPStatusToProto
HTTPStatusToProto(status) ==
    CASE status = "submitted"      -> "SUBMITTED"
      [] status = "working"        -> "WORKING"
      [] status = "input-required" -> "INPUT_REQUIRED"
      [] status = "completed"      -> "COMPLETED"
      [] status = "failed"         -> "FAILED"
      [] status = "canceled"       -> "CANCELED"
      [] status = "rejected"       -> "REJECTED"
      [] OTHER                     -> Unspecified
=============================================================================
