----------------------------- MODULE MCServices -----------------------------
EXTENDS Services

\* A request for another node, one for this node and another, one that somebody else signed.
Own1 == KubeletRequest("n1", "serving")
MCFishy == {[Own1 EXCEPT !.name = "evil", !.sans = {"evil"}], [Own1 EXCEPT !.sans = {"n1", "evil"}],
            [Own1 EXCEPT !.by = "other"]}

\* A configuration with a placement that leaves the master's host out, a version the catalog no
\* longer offers and no bootstrap sizes.
MCPlaced ==
    [DefaultConfig EXCEPT !.masters = 1, !.workers = 1, !.node = "a", !.pull = "ok", !.key = "ok",
        !.boot_count = 0, !.boot_cpu = 0, !.boot_mem = 0, !.boot_disk = 0, !.static_dns = 0,
        !.master = <<"">>, !.worker = <<"b">>, !.version = "4.20"]
MCSmall == [MinimalConfig EXCEPT !.pull = "ok", !.key = "ok", !.node = "a", !.version = "4.23.1"]
MCProject(saved, kind, vars, shell) == [file |-> saved, envfile |-> EnvFile(kind, vars), shell |-> shell]
MCOld == [NoLogin EXCEPT !.endpoint = 99, !.username = "old", !.password = "old"]
MCToken == [NoLogin EXCEPT !.token = "t"]
MCProjects ==
    {MCProject(<<>>, "absent", NoLogin, NoLogin), MCProject(<<MCPlaced>>, "data", MCOld, NoLogin),
     MCProject(<<MCSmall>>, "unusable", NoLogin, MCToken)}
MCEntries ==
    {<<"username", "ok">>, <<"password", "ok">>, <<"pull", "ok">>, <<"key", "ok">>, <<"workers", 0>>,
     <<"workers", NaN>>, <<"bastion", 21>>}
MCHosts == {<<"a", "b">>}
\* A node of another cluster, a VM being installed and one that is nobody's here.
MCMachines == [vm \in {"other", "installing", "mail"} |->
    CASE vm = "other" -> <<"master", 1>> [] vm = "installing" -> <<"scos", 1>> [] OTHER -> <<"debian", 1>>]
MCISOConfig == [masters |-> 1, workers |-> 1]
MCRelease(tag, rank, preview) ==
    [tag |-> tag, rank |-> rank, preview |-> preview, date |-> rank, text |-> rank, okd |-> TRUE, draft |-> FALSE]
MCPage == [ok |-> TRUE, releases |-> {MCRelease("4.23.2-ec", 4, TRUE), MCRelease("4.23.1", 3, FALSE)}]
MCReleases == {<<>>, <<MCPage, [ok |-> FALSE, releases |-> {}]>>}
MCTagSeries ==
    [t \in {"", "4.20", "4.22", "4.22.1-ec", "4.23.1", "4.23.2-ec"} |->
        CASE t = "4.20" -> <<4, 20>> [] t \in {"4.22", "4.22.1-ec"} -> <<4, 22>>
          [] t \in {"4.23.1", "4.23.2-ec"} -> <<4, 23>> [] OTHER -> <<0, 0>>]

\* Whatever part of these releases GitHub lists: each is offered once, at most one is called
\* the latest stable one and then nothing stable is newer, a series is known by its newest
\* stable release where it has one, and what is called the latest preview is newest in its
\* series.
MCCatalog ==
    MCPage.releases \cup {MCRelease("4.22.1-ec", 2, TRUE), MCRelease("4.22", 1, FALSE), MCRelease("4.20", 0, FALSE)}
MCRank(tag) == (CHOOSE r \in MCCatalog : r.tag = tag).rank
ASSUME CatalogLabels ==
    \A listed \in SUBSET MCCatalog :
        LET series == parseReleases(listed)
            stable == {r.tag : r \in {x \in listed : Stable(x)}}
            Labelled(type) == {v \in UNION {ToSet(s.versions) : s \in ToSet(series)} : v.type = type}
        IN  /\ Offered(series) = {r.tag : r \in listed}
            /\ Cardinality(Labelled("latest-stable")) <= 1
            /\ \A v \in Labelled("latest-stable") : \A t \in stable : MCRank(t) <= MCRank(v.tag)
            /\ \A s \in ToSet(series) :
                  LET tags == {v.tag : v \in ToSet(s.versions)} IN
                  /\ Cardinality(tags) = Len(s.versions)
                  /\ tags \cap stable # {} => s.latest \in stable
                  /\ \A t \in tags \cap stable : MCRank(t) <= MCRank(s.latest)
                  /\ \A v \in ToSet(s.versions) :
                        v.type = "latest-preview" => \A t \in tags : MCRank(t) <= MCRank(v.tag)

=============================================================================
