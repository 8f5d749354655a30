----------------------------- MODULE MCBrowser -----------------------------
(* Browser with as many client objects as Browser.cfg says.                *)
EXTENDS Browser
=============================================================================
