----------------------------- MODULE MCWidgetHang -----------------------------
(* WidgetDetails by itself, for TLC.                                          *)
EXTENDS WidgetDetails
=============================================================================
