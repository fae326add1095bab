---------------------------- MODULE MCFrontEnds ----------------------------
(***************************************************************************)
(* A small instance of FrontEnds: every bundle and every input, at every   *)
(* front end, with a document that names a module as the bundle does, or   *)
(* otherwise, or not at all, and the file there or not.                    *)
(***************************************************************************)
EXTENDS FrontEnds

CONSTANTS right, wrong

Shelf(doc, disk) == [doc |-> doc, disk |-> disk]

MCShelves ==
    {Shelf({}, {}), Shelf({"the bundle's"}, {}), Shelf({"the bundle's"}, {"the bundle's"}),
     Shelf({"another"}, {"the bundle's"}), Shelf({"another"}, {"another"})}
=============================================================================
