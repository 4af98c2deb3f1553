--------------------------- MODULE MCArtifactStore ---------------------------
(* Small instances of ArtifactStore.                                       *)
EXTENDS ArtifactStore, TLC

CONSTANTS build, rebuild, gguf, chat, code, first, other, config, weights

Artifact(i, mode, s) == [id |-> i, source |-> s, mode |-> mode]

(* Two builds copied under one id; under the other, which an earlier       *)
(* command linked to a third source, links to two sources, a copy that     *)
(* writes through them, and an artifact left where it is.                  *)
MCArtifacts == {Artifact(chat, "managed_copy", build),
                Artifact(chat, "managed_copy", rebuild),
                Artifact(code, "managed_symlink", rebuild),
                Artifact(code, "managed_symlink", gguf),
                Artifact(code, "managed_copy", gguf),
                Artifact(code, "external_path", gguf)}

MCContents == [s \in {build, rebuild, gguf} |->
                 IF s = build THEN {config, weights} ELSE {weights}]
MCPlaced == [i \in {chat, code} |-> IF i = code THEN rebuild ELSE "absent"]
=============================================================================
