-------------------------- MODULE ExtensionRegistry --------------------------
(***************************************************************************)
(* Composition and lookup of extensions, src/obst/core/registry.py.  An    *)
(* extension is an object with an ID, a kind and a descriptor; which of    *)
(* the capabilities of its kind it offers is seen from the members it has. *)
(* Several objects may share an ID and complement each other.              *)
(*                                                                         *)
(* An extension is a record                                                *)
(*   [extension_id, kind, descriptor, identified, members]                 *)
(* where identified says that its identity attributes can be read and have *)
(* exactly their types, and members maps the members it has to "callable"  *)
(* or "broken" (access raises, or the value cannot be called).  The models *)
(* name a member by the capability key it stands for.                      *)
(***************************************************************************)
EXTENDS Naturals, Sequences, SequencesExt

\* ExtensionKind and _CAPABILITY_SPECS
CapabilitySpecs ==
  [stage |-> {"stage_encoder", "stage_decoder", "parameter_encoder",
              "parameter_decoder", "parameter_interpreter"},
   stream_profile |-> {"metadata_encoder", "metadata_decoder",
                       "metadata_interpreter"},
   carrier |-> {"carrier_reader", "carrier_writer", "carrier_publisher"},
   packager |-> {"packager_provider"}]

Kinds == DOMAIN CapabilitySpecs

\* Nothing is registered under any kind.
Empty == [id \in {} |-> {}]
EmptyCapabilityMaps == [kind \in Kinds |-> Empty]

\* The capabilities that get_optional_callable_provider() is asked for and has.
Offered(extension) ==
  CapabilitySpecs[extension.kind] \cap DOMAIN extension.members

\* A seeded fault: the later provider of a capability wins.
AcceptsDuplicates(by_kind, extension) ==
  LET id == extension.extension_id IN
  /\ extension.identified
  /\ \A kind \in Kinds \ {extension.kind} : id \notin DOMAIN by_kind[kind]
  /\ \A key \in Offered(extension) : extension.members[key] = "callable"

\* One ID has one kind, one descriptor and one provider of each capability.
Accepts(by_kind, extension) ==
  LET id == extension.extension_id
      registered == by_kind[extension.kind]
  IN
  /\ extension.identified
  /\ \A kind \in Kinds \ {extension.kind} : id \notin DOMAIN by_kind[kind]
  /\ id \in DOMAIN registered =>
       /\ registered[id].descriptor = extension.descriptor
       /\ Offered(extension) \cap DOMAIN registered[id].providers = {}
  /\ \A key \in Offered(extension) : extension.members[key] = "callable"

\* The records with the capabilities of an accepted extension.
Registered(by_kind, extension) ==
  LET id == extension.extension_id
      registered == by_kind[extension.kind]
      known == IF id \in DOMAIN registered THEN registered[id].providers ELSE Empty
      record == [descriptor |-> extension.descriptor,
                 providers |-> [key \in DOMAIN known \cup Offered(extension) |->
                   IF key \in Offered(extension) THEN extension ELSE known[key]]]
  IN [by_kind EXCEPT ![extension.kind] =
        [other \in DOMAIN registered \cup {id} |->
           IF other = id THEN record ELSE registered[other]]]

\* An extension that is not accepted ends a composition, and there is no registry.
Composed(snapshot, extension) ==
  IF snapshot.refused \/ ~Accepts(snapshot.by_kind, extension)
    THEN [refused |-> TRUE, by_kind |-> EmptyCapabilityMaps]
    ELSE [refused |-> FALSE, by_kind |-> Registered(snapshot.by_kind, extension)]

\* The composition of a sequence of extensions.
Compose(extensions) ==
  LET upTo[k \in 0 .. Len(extensions)] ==
        IF k = 0 THEN [refused |-> FALSE, by_kind |-> EmptyCapabilityMaps]
        ELSE Composed(upTo[k - 1], extensions[k])
  IN  upTo[Len(extensions)]

-----------------------------------------------------------------------------
(* Lookup.                                                                 *)

\* Does the registry have a provider?  require_...() raises where it has not.
Provides(registry, kind, id, key) ==
  /\ id \in DOMAIN registry.by_kind[kind]
  /\ key \in DOMAIN registry.by_kind[kind][id].providers

Provider(registry, kind, id, key) == registry.by_kind[kind][id].providers[key]

\* capabilities(): per registered ID its kind, its descriptor and what is available.
Inventory(registry) ==
  UNION {{[extension_id |-> id, kind |-> kind,
           descriptor |-> registry.by_kind[kind][id].descriptor,
           available |-> {key \in CapabilitySpecs[kind] :
                            Provides(registry, kind, id, key)}] :
             id \in DOMAIN registry.by_kind[kind]} : kind \in Kinds}
=============================================================================
