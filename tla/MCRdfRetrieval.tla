-------------------------- MODULE MCRdfRetrieval --------------------------
(* One entity with two pages of statements at the larger page size: one statement with a   *)
(* correction, one corrected later, one of a type that is not downloaded; an entity whose  *)
(* list is empty and one RDF does not know.                                                *)
EXTENDS RdfRetrieval

CONSTANTS k1, k2, k3, d1, d2, d3, d4, c2, c3

MCEntities == {k1, k2, k3}
MCRefs == {d1, d2, d3, d4, c2, c3}
MCOwner == [r \in MCRefs |-> k1]
MCOriginal == (c2 :> d2) @@ (c3 :> d3) @@ [r \in MCRefs |-> r]
MCListing == (k1 :> <<d2, d3, d4>>) @@ (k2 :> <<>>) @@ (k3 :> <<>>)
MCPlace == (k1 :> 1) @@ (k2 :> 2) @@ (k3 :> 3) @@ (d1 :> 1) @@ (d2 :> 2) @@ (d3 :> 3) @@ (d4 :> 4)
           @@ (c2 :> 5) @@ (c3 :> 6)
=============================================================================
