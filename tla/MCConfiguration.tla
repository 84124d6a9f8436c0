--------------------------- MODULE MCConfiguration ---------------------------
(***************************************************************************)
(* Documents on which TLC runs Configuration: a device F of two inputs,    *)
(* found once or twice, one M of a single input, and elements that agree   *)
(* and disagree with them.                                                 *)
(***************************************************************************)
EXTENDS Configuration

AllDevices == {[phys |-> "usb1/0", vendor |-> "razer"],
               [phys |-> "usb1/1", vendor |-> "razer"],
               [phys |-> "usb2/0", vendor |-> "logitech"]}

Element(tag, id, phys, vendor, inputs, defaults) ==
    [tag |-> tag, id |-> id, phys |-> phys, vendor |-> vendor,
     inputs |-> inputs, defaults |-> defaults]

AllHandlerElements ==
    {Element("device", "F", "", "razer", <<"s", "t">>, <<"s", "x">>),
     Element("device", "F", "usb2/0", "", <<"s">>, <<"s">>),
     Element("device", "M", "", "logitech", <<"wheel">>, <<"wheel">>),
     Element("device", "", "", "razer", <<"s">>, <<"y">>),
     Element("device", "M", "", "logitech", <<>>, <<>>),
     Element("debug", "F", "", "logitech", <<>>, <<>>),
     Element("net", "___NET", "", "", <<>>, <<>>)}

SomeHandlerElements ==
    {Element("device", "F", "", "razer", <<"s", "t">>, <<"s", "x">>)}

AllIds == {"F", "M", "X", "___NET"}

ShortFor(id, outs) == [how |-> "short", id |-> id, outs |-> outs]
LongFor(id, by)    == [how |-> "long", id |-> id, by |-> by]
Of(key, out) == [k \in {key} |-> out]

Window(class, assigns, titles) == [class |-> class, assigns |-> assigns, titles |-> titles]
Title(regex, assign) == [regex |-> regex, assign |-> assign]

AllGroups ==
    {<< ShortFor("F", <<"a", "b">>) >>,
     << LongFor("F", Of("t", "c")) >>,
     << ShortFor("F", <<"a">>), LongFor("M", Of("wheel", "m")) >>}

AllWindowElements ==
    {Window("opera", <<>>, <<>>),
     Window("opera", << LongFor("F", Of("s", "d")) >>,
            << Title({"mail"}, ShortFor("F", <<"e", "f">>)),
               Title({"mail", "news"}, LongFor("F", Of("t", "g"))) >>),
     Window("vlc", << ShortFor("F", <<"~", "i">>), ShortFor("M", <<"n">>) >>, <<>>),
     Window("vlc", << ShortFor("F", <<"h", "~">>) >>, <<>>),
     Window("vlc", <<>>, << Title({"mail"}, ShortFor("F", <<"j">>)) >>),
     Window("opera", << LongFor("X", Of("s", "k")) >>, <<>>)}

AllWindows == {[class |-> "other", title |-> ""], [class |-> "opera", title |-> ""],
               [class |-> "opera", title |-> "mail"], [class |-> "opera", title |-> "news"],
               [class |-> "vlc", title |-> "mail"]}
NoTitle == [class |-> "other", title |-> ""]

\* The README's example of "~", cut to two inputs.
TildeGroups  == {<< ShortFor("F", <<"a", "b">>) >>, << ShortFor("F", <<"a", "b">>),
                                                      ShortFor("M", <<"n">>) >>}
TildeWindows == {Window("opera", << ShortFor("F", <<"~", "c">>) >>, <<>>)}

\* A <window> with outputs of its own and a <title> that gives one of them
\* another, by <long>.
TitleWindows == {Window("opera", << ShortFor("F", <<"a", "b">>) >>,
                        << Title({"news"}, LongFor("F", Of("t", "c"))) >>)}
TitleGroups == {<< ShortFor("F", <<"d", "e">>) >>}
=============================================================================
