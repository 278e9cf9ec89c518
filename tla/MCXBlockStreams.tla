--------------------------- MODULE MCXBlockStreams ---------------------------
(***************************************************************************)
(* Instances of XBlockStreams: a set of types with every kind of member    *)
(* ZoneCode knows, and every graph over two assets made of them.           *)
(***************************************************************************)
EXTENDS XBlockStreams

Ptr(type, block, reusable) == [type |-> type, block |-> block, reusable |-> reusable]
Type(size, align, block, members) ==
  [size |-> size, align |-> align, block |-> block, members |-> members]
String == Ptr("char", Inherit, TRUE)
Asset == Ptr("Asset", "temp", TRUE)

(* The block XModelSurfs has, as in IW4, is a parameter: the types of IW5 and
   T6, whose clipMap_t points to a ClipInfo in the same way, give it none.  *)
TypesWith(surfsBlock) ==
  [XAssetList |-> Type(8, 4, Inherit, <<Ptr("ScriptString", "virtual", FALSE),
                                        Ptr("XAsset", Inherit, FALSE)>>),
   ScriptString |-> Type(4, 4, Inherit, <<String>>),
   XAsset |-> Type(8, 4, Inherit, <<Asset>>),
   char |-> Type(1, 1, Inherit, <<>>),
   Asset |-> Type(6, 4, InsertBlock,
                  <<String, Asset, Ptr("Surfs", "temp", TRUE), Ptr("Plane", Inherit, TRUE),
                    Ptr("Plane", Inherit, TRUE), Ptr("Vert", "large", FALSE),
                    Ptr("Vis", "runtime", FALSE)>>),
   Surfs |-> Type(5, 4, surfsBlock, <<String, Ptr("Plane", Inherit, TRUE)>>),
   Plane |-> Type(3, 2, Inherit, <<>>),
   Vert |-> Type(3, 2, Inherit, <<>>),
   Vis |-> Type(5, 4, Inherit, <<>>)]
TypesMC == TypesWith(InsertBlock)
TypesClipMap == TypesWith(Inherit)

Nil == [to |-> 0, elem |-> 0, count |-> 0]
To(obj, elem, count) == [to |-> obj, elem |-> elem, count |-> count]
Object(type, refs) == [type |-> type, refs |-> refs]

(* Objects: 1 the list, 2 the array of script strings, 3 the array of assets,
   4 and 5 the assets, 6 to 8 strings, 9 surfs, 10 planes, 11 vertices, 12
   runtime data.  Asset 5 may refer to asset 4 and be listed before or after
   it; the linker lists it after.  Names are shared; each asset's own is
   written with it, but for the graphs of NamedBefore.                     *)
Graph(order, child, one, other, surfs) ==
  << Object("XAssetList", << <<To(2, 0, 2), To(3, 0, 2)>> >>),
     Object("ScriptString", << <<To(8, 0, 3)>>, <<To(8, 0, 3)>> >>),
     Object("XAsset", << <<To(order[1], 0, 1)>>, <<To(order[2], 0, 1)>> >>),
     Object("Asset", << <<To(6, 0, 3), Nil>> \o one >>),
     Object("Asset", << <<To(7, 0, 2), IF child THEN To(4, 0, 1) ELSE Nil>> \o other >>),
     Object("char", <<>>), Object("char", <<>>), Object("char", <<>>),
     Object("Surfs", << <<To(7, 0, 2), surfs>> >>),
     Object("Plane", <<>>), Object("Vert", <<>>), Object("Vis", <<>>) >>

Rest(plane, data) ==
  {<<surfs, planes>> \o p \o data :
     surfs \in {Nil, To(9, 0, 1)}, planes \in {Nil, To(10, 0, 2)}, p \in plane}
NoData == <<Nil, Nil>>
Data == <<To(11, 0, 1), To(12, 0, 1)>>
First == <<To(10, 0, 1)>>
Second == <<To(10, 1, 1)>>
Listed == {<< <<4, 5>>, FALSE>>, << <<4, 5>>, TRUE>>, << <<5, 4>>, TRUE>>}
(* With the names of script strings nothing need lie behind the last slot. *)
NamedBefore(g) ==
  [g EXCEPT ![4].refs[1][1] = To(8, 0, 3), ![5].refs[1][1] = To(8, 0, 3)]
GraphsMC ==
  {Graph(listed[1], listed[2], one, other, To(10, 1, 1)) :
     listed \in Listed,
     one \in Rest({<<Nil>>, Second}, Data),
     other \in Rest({<<Nil>>, Second}, Data) \cup {<<Nil, Nil>> \o First \o NoData}}
  \cup {NamedBefore(Graph(listed[1], listed[2], one, <<Nil, Nil, Nil>> \o Data, Nil)) :
          listed \in Listed, one \in Rest({<<Nil>>}, Data)}
=============================================================================
