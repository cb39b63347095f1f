---------------------------- MODULE MCXBeeRadio -----------------------------
(* XBeeRadio for TLC: the rates that setup_baudrate tries.                 *)
EXTENDS XBeeRadio

AllBauds == <<9600, 19200, 38400, 57600, 115200>>
=============================================================================
