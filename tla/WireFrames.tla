------------------------------- MODULE WireFrames -------------------------------
(***************************************************************************)
(* The envelope of a Holler v1 frame and its decoder (src/src/proto.rs).      *)
(* Of a text frame is kept what decode looks at: whether it is JSON, and an    *)
(* object, which of the envelope's fields are there with the right JSON type, *)
(* the version, and whether the body has the shape its type asks for.         *)
(***************************************************************************)
EXTENDS Integers

CONSTANTS
  MaxVersion,    \* bound: the largest version a frame carries
  VersionModulus \* v as u32: 2^32 in the code

ASSUME WireAssumption ==
  MaxVersion \in Nat /\ VersionModulus \in Nat /\ VersionModulus > 1

PROTOCOL_VERSION == 1

\* The types whose bodies the codec can name ...
TypedBodies == {"join", "join_ok", "auth", "hello", "ping", "pong", "error", "query", "prompt",
                "reply", "interrupt", "answer", "presence", "session_blocked", "ack"}
\* ... and one whose body is any value.
RawBodies   == {"query_ok"}

\* Field values: "absent" is also a field of another JSON type.
Absent == "absent"
Frame ==
  [json : {"invalid", "scalar", "object"}, type : TypedBodies \cup RawBodies \cup {"wait", Absent},
   v : 0..MaxVersion \cup {-1}, id : Nat, ts : BOOLEAN, from : BOOLEAN,
   body : {Absent, "fits", "misfits"}]

FromWire(t) == IF t \in TypedBodies \cup RawBodies THEN t ELSE "Unknown"

Malformed   == [ok |-> FALSE, why |-> "Malformed", type |-> "none", id |-> 0]
Unsupported == [ok |-> FALSE, why |-> "UnsupportedVersion", type |-> "none", id |-> 0]

\* The body of type t is read into its own shape, or kept as it is.
BodyFits(f) == f.body = "fits" \/ (f.body = "misfits" /\ FromWire(f.type) \notin TypedBodies)

\* decode.  The version, read as 64 bits wide, is cut to 32 before it is compared.
Decode(f) ==
  IF f.json # "object" \/ f.type = Absent \/ f.v = -1 THEN Malformed
  ELSE IF f.v % VersionModulus # PROTOCOL_VERSION THEN Unsupported
  ELSE IF f.id = 0 \/ ~f.ts \/ ~f.from \/ ~BodyFits(f) THEN Malformed
  ELSE [ok |-> TRUE, why |-> "none", type |-> FromWire(f.type), id |-> f.id]

\* encode, of what this client builds: every field, and the version it speaks.
Encode(type, id) ==
  [json |-> "object", type |-> type, v |-> PROTOCOL_VERSION, id |-> id, ts |-> TRUE, from |-> TRUE,
   body |-> "fits"]
===============================================================================
