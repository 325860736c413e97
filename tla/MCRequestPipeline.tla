------------------------- MODULE MCRequestPipeline -------------------------
(* An instance of RequestPipeline for TLC. *)
EXTENDS RequestPipeline

CONSTANTS r1, r2

\* Two whisper models in one directory, and an embedding model.
SomeModels == {"turbo", "alias", "bge"}
SomePaths == [m \in SomeModels |-> IF m = "bge" THEN "dir2" ELSE "dir1"]
SomeTypes == [m \in SomeModels |-> IF m = "bge" THEN "embedding" ELSE "whisper"]
SomePreload == <<"bge">>

Ask(kind, model, body) == [kind |-> kind, model |-> model, body |-> body]

\* One of each kind that runs, and one of each that is answered at once.
JobInputs == {Ask("audio", "turbo", "speech"), Ask("audio", "alias", "speech"),
              Ask("embed", "bge", "text"), Ask("unload", "none", "none"),
              Ask("decode", "turbo", "speech")}
AllInputs == JobInputs \union
  {Ask("audio", "bge", "speech"), Ask("audio", "turbo", "invalid"),
   Ask("audio", "turbo", "notWav"), Ask("audio", "turbo", "silence"),
   Ask("embed", "missing", "text"), Ask("audio", "missing", "malformed"),
   Ask("embed", "bge", "large"), Ask("embed", "bge", "unreadable")}
=============================================================================
