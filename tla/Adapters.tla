----------------------------- MODULE Adapters -----------------------------
(***************************************************************************)
(* What the four adapters of app/adapters make of a document.  A value is  *)
(* what json.loads, feedparser or BeautifulSoup return, with the type      *)
(* "dict", "list" or "other"; a dict has its members in "at" and, if it is *)
(* read as an entry, what its fields hold: titles, urls and dates are the  *)
(* candidates in the order in which the adapter asks for them.             *)
(*                                                                         *)
(* A candidate is "none" if it is missing or empty, and "falsy" if it is   *)
(* neither but false in a test; a link is "malformed" if urlsplit raises.  *)
(***************************************************************************)
EXTENDS Integers, SequencesExt

AdapterNames == {"rss", "json_api", "graphql", "html"}

Nothing == [type |-> "other"]

Get(value, name) ==
    IF value.type = "dict" /\ name \in DOMAIN value.at THEN value.at[name] ELSE Nothing

\* _resolve_path.
Resolve(value, path) == FoldLeft(Get, value, path)

Dicts(value) ==
    IF value.type = "list" THEN SelectSeq(value.elements, LAMBDA v : v.type = "dict") ELSE <<>>

ListKeys == <<"items", "results", "data", "hacks", "proposals">>

\* _items_from_data: under the path of the source, or the first list under a usual key.
JsonEntries(value, path) ==
    LET lists == SelectSeq(ListKeys, LAMBDA k : Get(value, k).type = "list")
        data  == IF path # <<>> THEN Resolve(value, path)
                 ELSE IF lists # <<>> THEN Get(value, lists[1])
                 ELSE value
    IN  IF data.type = "dict" THEN <<data>> ELSE Dicts(data)

DefaultPath == <<"data", "proposals">>

\* _extract_entries: a dict at the end of the path is not an entry.
GraphqlEntries(value, path) == Dicts(Resolve(value, IF path = <<>> THEN DefaultPath ELSE path))

FirstN(s, n) == SubSeq(s, 1, IF n < Len(s) THEN n ELSE Len(s))

\* The HTML adapter looks at no more than three times as many nodes as it keeps.
HtmlEntries(value, max) == FirstN(value.elements, 3 * max)

Entries(source, value) ==
    CASE source.adapter = "rss"      -> value.elements
      [] source.adapter = "json_api" -> JsonEntries(value, source.path)
      [] source.adapter = "graphql"  -> GraphqlEntries(value, source.path)
      [] source.adapter = "html"     -> HtmlEntries(value, source.max)

---------------------------------------------------------------------------

\* _first, _entry_url and the chain of "or" for the date of a feed entry.
FirstOf(candidates) ==
    LET given == SelectSeq(candidates, LAMBDA c : c # "none")
    IN  IF given = <<>> THEN "none" ELSE given[1]

\* Feeds and JSON offer several fields, GraphQL and HTML one.
Field(source, candidates) ==
    IF source.adapter \in {"rss", "json_api"} THEN FirstOf(candidates) ELSE candidates[1]

\* The entry is skipped without a title, in HTML also without a link.
Kept(source, entry) ==
    /\ Field(source, entry.titles) = "text"
    /\ source.adapter = "html" => Field(source, entry.urls) \notin {"none", "falsy"}

\* Without a link, an entry gets the address of the document.
UrlOf(source, entry) ==
    LET url == Field(source, entry.urls)
    IN  IF url \in {"none", "falsy"} THEN "document" ELSE url

\* parse_datetime: what it cannot read counts as no date.
DateOf(source, entry) ==
    LET date == Field(source, entry.dates) IN IF date = "unreadable" THEN "none" ELSE date

ItemOf(source, entry) == [url |-> UrlOf(source, entry), date |-> DateOf(source, entry)]

\* The entries that the loop over the document reaches and does not skip.
KeptEntries(source, value) ==
    LET kept == SelectSeq(Entries(source, value), LAMBDA e : Kept(source, e))
    IN  IF source.adapter = "html" THEN FirstN(kept, source.max) ELSE kept

\* parse: the items in the order of the document.
Items(source, value) ==
    LET kept == KeptEntries(source, value)
    IN  [i \in DOMAIN kept |-> ItemOf(source, kept[i])]

\* One malformed link ends parse, as canonicalize_url has no handler; so does a
\* text that is not JSON.
Raises(source, value) ==
    \/ source.adapter \in {"json_api", "graphql"} /\ ~value.readable
    \/ \E item \in ToSet(Items(source, value)) : item.url = "malformed"
===========================================================================
