-------------------------- MODULE MCWorkspaceTools --------------------------
EXTENDS WorkspaceTools, TLC
CONSTANTS w1, w2, s1, out
MCPaths == {w1, w2, s1, out}
MCZone == w1 :> "inside" @@ w2 :> "inside" @@ s1 :> "skill" @@ out :> "outside"
MCResolved == "a" :> w1 @@ "b" :> w2 @@ "k" :> s1
MCRetargets == {<<"a", out>>}
MCInitial == w1 :> <<"x", "y">> @@ w2 :> Absent @@ s1 :> <<"x", "long", "y">>
             @@ out :> <<"y">>
MCForeignTexts == {<<"x">>, Absent}
MCWidth == "x" :> 1 @@ "y" :> 1 @@ "z" :> 1 @@ "long" :> 3
Update(n, to, hunks) == [kind |-> "update", name |-> n, to |-> to,
                         hunks |-> hunks, lines |-> << >>]
Add(n, lines) == [kind |-> "add", name |-> n, to |-> n, hunks |-> << >>,
                  lines |-> lines]
Delete(n) == [kind |-> "delete", name |-> n, to |-> n, hunks |-> << >>,
              lines |-> << >>]
Hunk(old, new) == [old |-> old, new |-> new]
\* an update and an addition, a move, and a deletion with an edit of a Skill file
MCPatches == {
    <<Update("a", "a", <<Hunk(<<"x">>, <<"z">>)>>), Add("b", <<"z">>)>>,
    <<Update("a", "b", << >>)>>,
    <<Delete("a"), Update("k", "k", <<Hunk(<< >>, <<"z">>)>>)>>}
Access(policy, full, locked) == [policy |-> policy, full |-> full, locked |-> locked]
Policies == {Access("interactive", FALSE, FALSE), Access("trusted", FALSE, FALSE),
             Access("trusted", FALSE, TRUE), Access("trusted", TRUE, FALSE)}
Automatic == {Access("automatic", FALSE, FALSE)}
Files(c, w, r, f) == [calls |-> c, foreign |-> w, refresh |-> r, faults |-> f]
Shells(c, p, m, t, f, o) == [commands |-> c, processes |-> p, markers |-> m,
                             threads |-> t, faults |-> f, out |-> o]
NoFiles == Files(0, 0, 0, 0)
NoShells == Shells(0, 0, 0, 0, 0, 0)
Mcp(e, c, r, f) == [entries |-> e, calls |-> c, retries |-> r, faults |-> f]
NoMcp == Mcp(<< >>, 0, 0, 0)
Entry(label, native, enabled, transport) ==
    [label |-> label, native |-> native, enabled |-> enabled, valid |-> TRUE,
     transport |-> transport, command |-> "pluginRoot", cwd |-> "pluginData",
     headers |-> "set"]
Stdio == Entry("s", FALSE, TRUE, "stdio")
Http == Entry("t", TRUE, TRUE, "http")
\* "q" is switched off, "r" is legacy SSE, "s" comes twice, "z" is past the limit
Entries == <<Entry("q", TRUE, FALSE, "http"), Entry("r", FALSE, TRUE, "sse"),
             Stdio, Entry("s", FALSE, TRUE, "http"), Http,
             Entry("z", TRUE, TRUE, "http")>>
\* a command outside the plugin, a header variable that is not set
Broken == <<[Stdio EXCEPT !.command = "outside"], [Http EXCEPT !.headers = "unset"]>>
Remote1(exposed, fits) == [exposed |-> exposed, fits |-> fits]
MCListing == "s" :> <<Remote1("s_x", TRUE), Remote1("s_y", FALSE), Remote1("s_x", TRUE)>>
             @@ "t" :> <<Remote1("none", TRUE), Remote1("t_x", TRUE), Remote1("t_y", TRUE)>>
             @@ "q" :> << >> @@ "r" :> << >> @@ "z" :> << >>
\* file calls beside one background process; a patch on a failing disk; a command whose descendants outlive
\* it, then a file call; a long output; the control of two tasks and a marker; a
\* long log; two MCP servers; one failing MCP server; an MCP call under the lock; servers
\* that cannot start
MCScenarios == {
    [access |-> Policies \ {Access("trusted", TRUE, FALSE)},
     files |-> Files(2, 1, 1, 0), shells |-> Shells(0, 1, 0, 0, 0, 0), mcp |-> NoMcp],
    [access |-> Policies, files |-> Files(1, 1, 0, 2), shells |-> Shells(0, 1, 0, 0, 0, 0),
     mcp |-> NoMcp],
    [access |-> Policies, files |-> Files(1, 1, 0, 0), shells |-> Shells(1, 0, 0, 0, 1, 0),
     mcp |-> NoMcp],
    [access |-> Automatic, files |-> NoFiles, shells |-> Shells(1, 0, 0, 0, 1, 3),
     mcp |-> NoMcp],
    [access |-> Automatic, files |-> NoFiles, shells |-> Shells(0, 2, 1, 1, 1, 0),
     mcp |-> NoMcp],
    [access |-> Automatic, files |-> NoFiles, shells |-> Shells(0, 1, 0, 0, 0, 4),
     mcp |-> NoMcp],
    [access |-> Automatic, files |-> NoFiles, shells |-> NoShells, mcp |-> Mcp(Entries, 1, 1, 1)],
    [access |-> Automatic, files |-> NoFiles, shells |-> NoShells,
     mcp |-> Mcp(<<Stdio>>, 4, 0, 0)],
    [access |-> {Access("trusted", FALSE, TRUE)}, files |-> NoFiles, shells |-> NoShells,
     mcp |-> Mcp(<<Http>>, 1, 0, 0)],
    [access |-> Automatic, files |-> NoFiles, shells |-> NoShells, mcp |-> Mcp(Broken, 1, 1, 0)]}
=============================================================================
