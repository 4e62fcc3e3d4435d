--------------------------- MODULE MCRuntimeSync ---------------------------
(* TLC instances of RuntimeSync. *)
EXTENDS RuntimeSync, TLC

CONSTANTS i1, i2

TwoIds == {i1, i2}
TwoAccounts == {"default", "spare"}
DefaultOnly == {"default"}
TwoProviders == {"openrouter", "gemini"}
OneChannel == {"token"}
TwoPaths == {"AGENTS.md", "notes.md"}
Agents == {"AGENTS.md"}
Texts == {"generated", "x"}
People == {"create", "update", "image", "delete", "activate", "deactivate", "main", "mode",
           "lock"}
Keys == {"config", "account", "profile", "credentials", "rekey", "choose", "provider", "drop"}
Files == {"save", "unlink", "regenerate", "sync"}
All == People \cup Keys \cup Files
IdSymmetry == Permutations(TwoIds)
=============================================================================
