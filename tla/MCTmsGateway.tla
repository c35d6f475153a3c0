---------------------------- MODULE MCTmsGateway -----------------------------
(***************************************************************************)
(* A file import that is replaced by HTTP or SQL and back: the reference   *)
(* data is cached one tick, the intake of requests never.  The SQL        *)
(* connection has no statement for quotes and no query for requests.       *)
(***************************************************************************)
EXTENDS TmsGateway

CONSTANTS csv, erp

MCConnection ==
  [files |-> [kind |-> "file_import", system |-> csv,
              reads |-> {"performance", "rfqs"}, writes |-> TRUE],
   rest  |-> [kind |-> "http", system |-> erp,
              reads |-> {"performance", "rfqs"}, writes |-> TRUE],
   views |-> [kind |-> "sql", system |-> erp,
              reads |-> {"performance"}, writes |-> FALSE],
   wired |-> [kind |-> "sql", system |-> erp,
              reads |-> {"performance"}, writes |-> TRUE]]

MCEntities == {"performance", "rfqs"}
MCTtl      == [e \in MCEntities |-> IF e = "performance" THEN 1 ELSE 0]
Quiet == [first |-> "views", connections |-> {"views"}, reads |-> {"performance"},
          tiers |-> {"durable"}, ticks |-> 2, changes |-> 1,
          calls |-> 2, faults |-> 0, switches |-> 0, restarts |-> 0]

(* A slow database behind one tier, HTTP behind two; a connection that     *)
(* takes the place of another; requests; batches that are written.         *)
MCSetups ==
  {[Quiet EXCEPT !.calls = 3],
   [Quiet EXCEPT !.first = "rest", !.connections = {"rest"},
                 !.tiers = {"fast", "durable"}, !.changes = 0],
   [Quiet EXCEPT !.first = "files", !.connections = {"files", "rest"},
                 !.changes = 0, !.switches = 1, !.restarts = 1],
   [Quiet EXCEPT !.connections = {"files", "rest", "views"}, !.reads = {"rfqs"},
                 !.calls = 1, !.switches = 1],
   [Quiet EXCEPT !.connections = {"files", "rest", "views", "wired"},
                 !.reads = {}, !.tiers = {}, !.ticks = 0,
                 !.changes = 0, !.faults = 2, !.switches = 1, !.restarts = 1]}

MCLanes    == <<"L1", "L2">>
==============================================================================
