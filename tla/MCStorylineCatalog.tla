------------------------- MODULE MCStorylineCatalog -------------------------
(* Two domains and two storylines, each with the derived identity and one   *)
(* that the store made up.                                                   *)
EXTENDS StorylineCatalog

DomainItem(code, name) == [code |-> code, name |-> name]
StoryItem(name, code, codes) == [name |-> name, text |-> "t", code |-> code, codes |-> codes]
StoryFile(version, domains, storylines) ==
    [version |-> version, domains |-> domains, storylines |-> storylines]

BothDomains == <<DomainItem("D1", "one"), DomainItem("D2", "two")>>

\* A list for the macroeconomic copy and a scalar for the geopolitical one,
\* the reverse, one that exchanges the names of the domains, one with a domain
\* that is not there.
MCStorylineFiles ==
    {StoryFile(2, BothDomains, <<StoryItem("n1", NoDomainId, {"D1", "D2"})>>),
     StoryFile(2, BothDomains, <<StoryItem("n1", "D2", {})>>),
     StoryFile(1, BothDomains, <<StoryItem("n1", "D1", {})>>),
     StoryFile(3, BothDomains, <<StoryItem("n1", NoDomainId, {"D1", "D2"})>>),
     StoryFile(2, <<DomainItem("D1", "two"), DomainItem("D2", "one")>>,
               <<StoryItem("n1", NoDomainId, {"D1"})>>)}

MCDomainId == [D1 |-> "d1", D2 |-> "d2"]
MCStoryId == [n1 |-> "s1", n2 |-> "s2"]
NoRows(ids, none) == [i \in ids |-> none]

\* Nothing; or two domains and two storylines of the last release.
MCFirstStorylines ==
    {[domain |-> NoRows(DomainIds, NoDomain), storyline |-> NoRows(StoryIds, NoStory),
      legacy |-> NoRows(StoryIds, NoDomainId)],
     [domain |-> [NoRows(DomainIds, NoDomain) EXCEPT
                    !["d1"] = [code |-> "D1", name |-> "one", updated |-> 0],
                    !["d2"] = [code |-> "D2", name |-> "two", updated |-> 0]],
      storyline |-> [NoRows(StoryIds, NoStory) EXCEPT
                       !["s1"] = [name |-> "n1", text |-> "t", updated |-> 0],
                       !["s2"] = [name |-> "n2", text |-> "t", updated |-> 0]],
      legacy |-> [NoRows(StoryIds, NoDomainId) EXCEPT !["s1"] = "d1", !["s2"] = "d2"]],
     [domain |-> [NoRows(DomainIds, NoDomain) EXCEPT
                    !["d1"] = [code |-> "D1", name |-> "one", updated |-> 0],
                    !["d2"] = [code |-> "D2", name |-> "two", updated |-> 0]],
      storyline |-> [NoRows(StoryIds, NoStory) EXCEPT
                       !["s1"] = [name |-> "n1", text |-> "t", updated |-> 0]],
      legacy |-> [NoRows(StoryIds, NoDomainId) EXCEPT !["s1"] = "d1"]]}
=============================================================================
