---------------------------- MODULE MCGeneration ----------------------------
(***************************************************************************)
(* Values for model checking Generation.  The tables: two resources of one *)
(* group that would derive one kind, one whose kind is pinned, and one     *)
(* with references and write-only attributes.  The attributes: p with a    *)
(* write-only form and its counter, and write-only forms of these two in   *)
(* turn.                                                                   *)
(***************************************************************************)
EXTENDS Generation

MCConfigs ==
    LET all == {"unifi_static_route", "unifi_traffic_route", "unifi_ap_group", "unifi_wlan"}
    IN  {all, all \ {"unifi_static_route"}}

P == <<"p">>
PWO == <<"p", "wo">>
MCNames == {P, PWO, <<"p", "wo", "version">>, <<"p", "wo", "wo">>, <<"p", "wo", "version", "wo">>}

Clause(text, names) == [text |-> text, names |-> names]
Plain == <<Clause("about", {})>>
Warning == <<Clause("stored", {}), Clause("use", {PWO})>>
Counted == <<Clause("when", {PWO, <<"p", "wo", "version">>}), Clause("increment", {})>>
Advice == <<Clause("prefer", {PWO, <<"p", "wo", "wo">>})>>

MCDescriptions == {<<Plain, Warning>>, <<Counted, Plain, Advice>>, <<Warning>>}
=============================================================================
