----------------------------- MODULE MCUploads -----------------------------
(***************************************************************************)
(* Uploads on devices of up to three families, among them every way the      *)
(* kinds of queues can share a family.                                       *)
(***************************************************************************)
EXTENDS Uploads

All == {"graphics", "compute", "transfer", "sparse"}

MCFlags == {All, {"graphics", "transfer"}, {"compute", "transfer"}, {"transfer"}}
Of(flags, present) == [flags |-> flags, present |-> present]

(* Up to two families without a surface, three kinds apart, and families     *)
(* that present: the better graphics family first, last, or not at all.      *)
MCDevices ==
  UNION {[1 .. n -> [flags: MCFlags, present: {FALSE}]] : n \in 1 .. 2}
    \union {<<Of(All, FALSE), Of({"graphics", "transfer"}, FALSE), Of({"transfer"}, FALSE)>>,
            <<Of(All, TRUE), Of({"graphics", "transfer"}, TRUE)>>,
            <<Of({"transfer"}, TRUE), Of(All, TRUE)>>,
            <<Of({"graphics", "transfer"}, FALSE), Of(All, TRUE)>>}

MCExtents == {<<1, 1>>, <<5, 3>>}
MCQueues == {{"graphics"}, {"transfer"}, {"graphics", "transfer"},
             {"graphics", "compute", "transfer"}}
=============================================================================
