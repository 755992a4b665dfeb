---------------------------- MODULE MCExchange ----------------------------
(* Exchanges that follow one another on a connection, for TLC.             *)
EXTENDS Exchange, TLC

CONSTANTS e1, e2, h1, h2, c1

MCIds       == {e1, e2}
MCHosts     == {h1, h2}
MCConns     == {c1}
MCHostOf    == [e \in Ids |-> h1]
MCConnOf    == [e \in Ids |-> c1]
MCFilters   == {{}, {h1}, {h2}}
MCDirect    == [h \in Hosts |-> h]
MCMapped    == [h \in Hosts |-> h2]
MCMappings  == {MCDirect, MCMapped}
MCRedirects == {h2}
=============================================================================
