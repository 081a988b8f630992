------------------------------- MODULE MCSetup -------------------------------
(* Instances of Setup for TLC.  MCSetup.cfg: the two adapters that report  *)
(* conflicts, three commands, one edit by others, one broken-off command,  *)
(* every kind of file that Keld may find, and the texts behind the files.  *)
(* MCSetupUninstall.cfg: Codex and Gemini CLI, undisturbed.                *)
EXTENDS SetupTexts
=============================================================================
