-------------------------------- MODULE Rpc --------------------------------
(***************************************************************************)
(* What rpc.RPC makes of the protocol in the fields of a treatment. It     *)
(* writes the name of a protocol over its number in the dict it is given:  *)
(* the packet of an alert, a record, or a threshold's own treatment_fields,*)
(* which the section of the thresholds holds (ThresholdStore).             *)
(***************************************************************************)
CONSTANTS
  NameOf,      \* protocol number -> its name, _protocol_identifier_map
  ValidNames   \* the names in _valid_protocol_identifiers

(* No protocol has a number or "$" for its name.                             *)
ASSUME RpcAssumption == \A n \in DOMAIN NameOf : NameOf[n] \notin DOMAIN NameOf \cup {"$"}

(* RPC._dict_to_url_string: a protocol number is replaced by its name in the *)
(* dict it was given; a protocol that is neither a known number nor a valid  *)
(* name makes it give up.                                                    *)
Protocol(f) == IF "protocolIdentifier" \in DOMAIN f THEN {f.protocolIdentifier} ELSE {}
Sendable(f) == Protocol(f) \subseteq DOMAIN NameOf \cup ValidNames
Named(f)    == IF Protocol(f) \cap DOMAIN NameOf # {}
               THEN [f EXCEPT !.protocolIdentifier = NameOf[@]] ELSE f

(* A threshold once its treatment_fields, if it has any, were treated.       *)
NamedContent(c) == IF "treatment_fields" \in DOMAIN c
                   THEN [c EXCEPT !.treatment_fields = Named(@)] ELSE c
=============================================================================
