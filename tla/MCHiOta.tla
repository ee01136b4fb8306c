------------------------------ MODULE MCHiOta ------------------------------
(* HiOta with the web server alone, and beside app_main, which may still be *)
(* in its own call when the server takes its first request.                 *)
EXTENDS HiOta
CONSTANTS httpd, app_main, t1, t2, missing, e1, e2, alarm

MCTask  == {t1, t2}
MCHttpd == {httpd}
MCBoth  == {httpd, app_main}
MCError == {missing, e1, e2}
=============================================================================
