---------------------------- MODULE MCXmlPrinter ----------------------------
(* Small instance of XmlPrinter for TLC. *)
EXTENDS XmlPrinter, TLC

Symmetric == Permutations(Printers)
==============================================================================
