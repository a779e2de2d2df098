------------------------- MODULE MCSurfaceRetirement --------------------------
(* An object with a facet `f', of one type and with one enum member, and a *)
(* property `g' that may replace it.                                       *)
EXTENDS SurfaceRetirement, TLC

Tuple(site, sort, value) == [site |-> site, kind |-> sort, value |-> value]
Facets == {Tuple(<< >>, "property", "f"), Tuple(<<"f">>, "enum-member", "x"), Tuple(<<"f">>, "type", "string")}
Retyped == Tuple(<<"f">>, "type", "number")
Demanded == Tuple(<< >>, "required", "f")
Successor == Tuple(<< >>, "property", "g")

MCOriginal == Facets \cup {Tuple(<< >>, "type", "object")}
MCFacet == <<"f">>
MCReplacement == <<"g">>

(* Add the replacement, drop the facet or its enum member, or retype it.   *)
MCRewrites(schema) ==
  {[schema EXCEPT !.base = b] :
     b \in {schema.base \cup {Successor},
            schema.base \ (Facets \cup {Retyped, Demanded}),
            schema.base \ {Tuple(<<"f">>, "enum-member", "x")},
            (schema.base \ {Tuple(<<"f">>, "type", "string")}) \cup {Retyped}}}

(* Or require the facet, with or without alternatives of the whole.        *)
Restricting(schema) ==
  MCRewrites(schema)
    \cup {[schema EXCEPT !.base = @ \cup {Demanded}],
          [schema EXCEPT !.alternatives = {{Successor}}]}

DueRow(removeIn, addedIn, cites, persisted) ==
  [removeIn |-> removeIn, addedIn |-> addedIn, deprecatedIn |-> 0, cites |-> cites,
   persisted |-> persisted, annotated |-> persisted]
MCRows == {DueRow(2, 1, TRUE, FALSE), DueRow(2, 1, FALSE, FALSE), DueRow(NextMajor, 0, TRUE, FALSE),
           DueRow(2, 0, TRUE, TRUE)}

Correction(class, path, member, counted) ==
  [class |-> class, pointer |-> [path |-> path, member |-> member], bundles |-> counted,
   readsPersisted |-> FALSE]
MCCorrections ==
  {Correction("w3c-class-3", <<"f">>, "x", 0)}
    \cup {Correction("steward-deletion", <<"f">>, NoMember, n) : n \in {0, 1}}
=============================================================================
