------------------------------ MODULE CoapSite ------------------------------
(***************************************************************************)
(* The resource tree of a CoAP server (aiocoap, resource.py): sites that   *)
(* hold resources and further sites at paths, the dispatch of a request    *)
(* down the tree, and the list of links of /.well-known/core.              *)
(***************************************************************************)
EXTENDS Integers, Sequences, FiniteSets

CONSTANTS
  Sites,      \* a sequence of names; a site only holds sites after it
  Resources,
  Hidden,     \* resources whose get_link_description returns None
  Paths,      \* where resources and sites are registered
  Requests,   \* paths requests ask for
  MaxEntries  \* bounds what is registered

VARIABLE entries  \* [site, path, kind, what]: _resources and _subsites of every site

NotFound == "4.04"
Root == Sites[1]
At(kind, site) == {e \in entries : e.kind = kind /\ e.site = site}

InitSite == entries = {}

\* add_resource: what was at the path of that kind is replaced.
AddResource(site, path, kind, what) ==
  Cardinality(entries) < MaxEntries /\ entries' = {e \in entries : ~ (e.site = site /\ e.path = path /\ e.kind = kind)}
               \cup {[site |-> site, path |-> path, kind |-> kind, what |-> what]}

\* remove_resource: a site first, then a resource, else KeyError.
RemoveResource(site, path) ==
  LET at(kind) == {e \in At(kind, site) : e.path = path}
  IN /\ at("site") \cup at("resource") # {}
     /\ entries' = entries \ (IF at("site") # {} THEN at("site") ELSE at("resource"))

-----------------------------------------------------------------------------
\* _find_child_and_pathstripped_message: the resource at the path, else the subsite at the
\* longest proper prefix; a trailing slash is the subsite's root.
Prefixes(path) == {SubSeq(path, 1, n) : n \in 1 .. Len(path) - 1}
Rest(path, prefix) == SubSeq(path, Len(prefix) + 1, Len(path))
Stripped(path, prefix) == IF Rest(path, prefix) = <<"">> THEN <<>> ELSE Rest(path, prefix)
Nearest(found) == CHOOSE e \in found : \A f \in found : Len(e.path) >= Len(f.path)
Child(site, path) ==
  LET exact == {e \in At("resource", site) : e.path = path}
      above == {e \in At("site", site) : e.path \in Prefixes(path)}
  IN IF exact # {} THEN [kind |-> "resource", what |-> (CHOOSE e \in exact : TRUE).what, path |-> <<>>]
     ELSE IF above = {} THEN [kind |-> NotFound, what |-> NotFound, path |-> path]
     ELSE [kind |-> "site", what |-> Nearest(above).what, path |-> Stripped(path, Nearest(above).path)]

\* render and render_to_pipe hand the shortened request to the child, and so on.
RECURSIVE Reached(_, _)
Reached(site, path) ==
  LET child == Child(site, path)
  IN IF child.kind = "site" THEN Reached(child.what, child.path) ELSE child.what

-----------------------------------------------------------------------------
\* get_resources_as_linkheader: "/" in front of the joined path, for sites in front of the
\* link; here as the components between the slashes.
Joined(path) == IF path = <<>> THEN <<"">> ELSE path
RECURSIVE Links(_)
Links(site) ==
  {[href |-> Joined(e.path), what |-> e.what, via |-> <<e>>] :
     e \in {x \in At("resource", site) : x.what \notin Hidden}}
  \cup UNION {{[href |-> Joined(e.path) \o link.href, what |-> link.what, via |-> <<e>> \o link.via] :
                 link \in Links(e.what)} : e \in At("site", site)}

\* The path options of a request for the link (set_request_uri).
PathOf(href) == IF href = <<"">> THEN <<>> ELSE href

ModifySite ==
  \/ \E path \in Paths, i \in DOMAIN Sites :
       \/ \E r \in Resources : AddResource(Sites[i], path, "resource", r)
       \/ \E j \in i + 1 .. Len(Sites) : AddResource(Sites[i], path, "site", Sites[j])
       \/ RemoveResource(Sites[i], path)

-----------------------------------------------------------------------------
\* What another registration may hide of a link: a resource at the very path, a site at a
\* longer prefix; and a site at the empty path gets no request.
Covered(site, path, e) ==
  \/ e.kind = "site" /\ e.path = <<>>
  \/ e.kind = "site" /\ \E x \in At("resource", site) : x.path = path
  \/ e.kind = "site" /\ \E x \in At("site", site) : x.path \in Prefixes(path) /\ Len(x.path) > Len(e.path)
  \/ e.kind = "resource" /\ e.path = <<"">>
RECURSIVE Obstructed(_, _, _)
Obstructed(site, path, via) ==
  \/ Covered(site, path, Head(via))
  \/ /\ Head(via).kind = "site"
     /\ Obstructed(Head(via).what, Stripped(path, Head(via).path), Tail(via))

\* Every link of /.well-known/core leads to the resource it describes.
LinksLead ==
  \A link \in Links(Root) :
    Obstructed(Root, PathOf(link.href), link.via) \/ Reached(Root, PathOf(link.href)) = link.what
==============================================================================
