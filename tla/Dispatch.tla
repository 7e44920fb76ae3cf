------------------------------- MODULE Dispatch -------------------------------
(***************************************************************************)
(* Which parser a file is given to, and what its decoder makes of it.      *)
(*                                                                         *)
(* A file is its name, its content and its size, each as far as the tests  *)
(* tell them apart. The parsers are asked in a fixed order and the first   *)
(* that claims the file reads it; the last one claims every file. The      *)
(* parsers for browsers and for Windows artifacts choose a decoder of      *)
(* their own afterwards, by other tests than those that claimed the file.  *)
(***************************************************************************)
EXTENDS Naturals, Sequences

Names == {"x.zip", "x.evtx", "x.pf", "x.lnk", "$MFT", "x-ms", "History", "History.dat",
          "places.sqlite", "WebCacheV01.dat", "other"}
\* small: below 100 KB; middle: at most 16 MB.
Sizes == {"small", "middle", "big"}

Sqlite == {"chromium", "firefox", "notifications", "other sqlite"}
Srum   == {"srum", "part of srum"}
Ese    == {"webcache", "search index", "other ese"} \cup Srum
Contents == {"archive", "evtx", "hive", "prefetch", "lnk", "mft", "jumplist", "task job", "task xml",
             "cryptnet", "bitmap cache", "pca", "text"} \cup Sqlite \cup Ese

\* usable: there is an entry in the file its decoder can make an event of.
Files == [name: Names, content: Contents, size: Sizes, usable: BOOLEAN]

-----------------------------------------------------------------------------
(* The parsers' tests.                                                     *)

IsArchive(f)  == f.name = "x.zip" \/ f.content = "archive"
IsEvtx(f)     == f.name = "x.evtx" \/ f.content = "evtx"
IsRegistry(f) == f.content = "hive"
IsPrefetch(f) == f.name = "x.pf" /\ f.content = "prefetch"
IsLnk(f)      == f.name = "x.lnk" /\ f.content = "lnk"
IsMft(f)      == f.name = "$MFT" /\ f.content = "mft"
IsJumplist(f) == f.name = "x-ms"
IsBrowser(f) ==
  \/ f.name \in {"History", "History.dat"} /\ f.content \in Sqlite
  \/ f.name = "places.sqlite"
  \/ f.name = "WebCacheV01.dat" /\ f.content \in Ese

\* The header of a certificate cache has no signature, only a length that must fit
\* the file: the headers of shortcuts pass for one.
LooksLikeCryptnet(f) == f.size = "small" /\ f.content \in {"cryptnet", "lnk"}

IsWindows(f) ==
  \/ f.size # "big" /\ f.content = "srum"
  \/ f.content \in {"notifications", "task job", "task xml", "bitmap cache", "pca"}
  \/ LooksLikeCryptnet(f)

\* Mutant: the catch-all is not the last parser.
OrderCatchAllEarly ==
  <<"archive", "evtx", "registry", "prefetch", "lnk", "mft", "jumplist", "browser", "file_metadata", "windows">>

\* The parsers in the order they are asked.
Order == <<"archive", "evtx", "registry", "prefetch", "lnk", "mft", "jumplist", "browser", "windows", "file_metadata">>

Claims(p, f) ==
  CASE p = "archive"       -> IsArchive(f)
    [] p = "evtx"          -> IsEvtx(f)
    [] p = "registry"      -> IsRegistry(f)
    [] p = "prefetch"      -> IsPrefetch(f)
    [] p = "lnk"           -> IsLnk(f)
    [] p = "mft"           -> IsMft(f)
    [] p = "jumplist"      -> IsJumplist(f)
    [] p = "browser"       -> IsBrowser(f)
    [] p = "windows"       -> IsWindows(f)
    [] p = "file_metadata" -> TRUE

\* The first parser that claims the file.
Selected(f) ==
  Order[CHOOSE i \in DOMAIN Order : Claims(Order[i], f) /\ \A j \in 1..(i - 1) : ~Claims(Order[j], f)]

-----------------------------------------------------------------------------
(* The decoders: the event types they make, the contents they find entries *)
(* in, and the parts an entry must have. An entry without a time of its    *)
(* own is skipped where "time" is among them; otherwise it is given the    *)
(* file's time, or the present one (notifications, the catch-all). A value *)
(* of a list of recent files has "text" if a readable name is found in it. *)

Entries == [parts: SUBSET {"data", "time", "text"}]

EvtxRecord   == [types |-> {"evtx"}, of |-> {"evtx"}, needs |-> {"data", "time"}]
MftEntry     == [types |-> {"mft"}, of |-> {"mft"}, needs |-> {"data", "time"}]
PrefetchRun  == [types |-> {"prefetch_execution"}, of |-> {"prefetch"}, needs |-> {"time"}]
LnkHeader    == [types |-> {"lnk_file"}, of |-> {"lnk"}, needs |-> {"time"}]
RegistryPlugin ==
  [types |-> {"registry_userassist", "registry_bam", "registry_amcache", "registry_shellbags_ntuser", "registry_shimcache"},
   of |-> {"hive"}, needs |-> {"data", "time"}]
RegistryValue == [types |-> {"registry_value"}, of |-> {"hive"}, needs |-> {"time"}]
RegistryMru ==
  [types |-> {"registry_recentdocs", "registry_opensavemru", "registry_lastvisitedmru",
              "registry_typedpaths", "registry_runmru", "registry_wordwheelquery"},
   of |-> {"hive"}, needs |-> {"time", "text"}]
AutomaticDestinations == [types |-> {"jumplist_entry"}, of |-> {"jumplist"}, needs |-> {"data"}]
CustomDestinations    == [types |-> {"jumplist_entry"}, of |-> {"jumplist"}, needs |-> {"data"}]
ChromiumHistory   == [types |-> {"browser_history"}, of |-> {"chromium"}, needs |-> {"time"}]
FirefoxHistory    == [types |-> {"browser_history"}, of |-> {"firefox"}, needs |-> {"time"}]
LegacyEdgeHistory == [types |-> {"browser_history"}, of |-> {"webcache"}, needs |-> {"data"}]
Notification  == [types |-> {"notification"}, of |-> {"notifications"}, needs |-> {}]
SrumRecord    == [types |-> {"srum_data"}, of |-> Srum, needs |-> {"data"}]
WindowsSearch == [types |-> {"windows_search"}, of |-> {"search index"}, needs |-> {"data"}]
ScheduledTaskXml == [types |-> {"scheduled_task"}, of |-> {"task xml"}, needs |-> {}]
ScheduledTaskJob == [types |-> {"scheduled_task"}, of |-> {"task job"}, needs |-> {}]
CryptnetCache == [types |-> {"cryptnet_cache"}, of |-> {"cryptnet"}, needs |-> {"data", "time"}]
BitmapCache   == [types |-> {"bitmap_cache"}, of |-> {"bitmap cache"}, needs |-> {}]
\* It tests nothing: what the decoders before it leave becomes an execution.
PcaFile       == [types |-> {"pca_execution"}, of |-> Contents, needs |-> {}]
Metadata      == [types |-> {"file_metadata"}, of |-> Contents, needs |-> {}]

\* The decoders the Windows parser tries, until one of them finds something.
WindowsDecoders ==
  <<Notification, SrumRecord, WindowsSearch, ScheduledTaskXml, ScheduledTaskJob, CryptnetCache, BitmapCache, PcaFile>>

\* The browser parser goes by the name.
BrowserDecoders(f) ==
  CASE f.name = "History"         -> {ChromiumHistory}
    [] f.name = "places.sqlite"   -> {FirefoxHistory}
    [] f.name = "WebCacheV01.dat" -> {LegacyEdgeHistory}
    [] OTHER -> {}

DecodersOf(p) ==
  CASE p = "evtx"     -> {EvtxRecord}
    [] p = "registry" -> {RegistryPlugin, RegistryValue, RegistryMru}
    [] p = "prefetch" -> {PrefetchRun}
    [] p = "lnk"      -> {LnkHeader}
    [] p = "mft"      -> {MftEntry}
    [] p = "jumplist" -> {AutomaticDestinations, CustomDestinations}
    [] p = "browser"  -> {ChromiumHistory, FirefoxHistory, LegacyEdgeHistory}
    [] p = "windows"  -> {WindowsDecoders[i] : i \in DOMAIN WindowsDecoders}
    [] OTHER -> {Metadata}

\* Whether a decoder makes an event of an entry.
Converts(d, e) == d.needs \subseteq e.parts

\* The decoders that need no entry describe the file as such.
Finds(d, f) == f.content \in d.of /\ (f.usable \/ (d.needs = {} /\ d # Notification))

FirstThatFinds(f) ==
  WindowsDecoders[CHOOSE i \in DOMAIN WindowsDecoders :
                    Finds(WindowsDecoders[i], f) /\ \A j \in 1..(i - 1) : ~Finds(WindowsDecoders[j], f)]

\* The types of the events a file may give. An archive gives files.
EventTypes(f) ==
  LET p  == Selected(f)
      ds == CASE p = "archive" -> {}
              [] p = "browser" -> BrowserDecoders(f)
              [] p = "windows" -> {FirstThatFinds(f)}
              [] OTHER -> DecodersOf(p)
  IN UNION {d.types : d \in {x \in ds : Finds(x, f)}}

-----------------------------------------------------------------------------
(* What the documentation says of a file: the decoder its content is for.  *)

Meant(c) ==
  {d \in UNION {DecodersOf(p) : p \in {Order[i] : i \in DOMAIN Order}} :
     IF c \in {"part of srum", "other sqlite", "other ese", "text"}
     THEN d = Metadata
     ELSE c \in d.of /\ d \notin {Metadata} /\ (d = PcaFile => c = "pca")}
TypesMeant(c) == UNION {d.types : d \in Meant(c)}

\* The names Windows and the browsers give to a content.
NameOf(c) ==
  CASE c = "archive" -> "x.zip" [] c = "evtx" -> "x.evtx" [] c = "prefetch" -> "x.pf"
    [] c = "lnk" -> "x.lnk" [] c = "mft" -> "$MFT" [] c = "jumplist" -> "x-ms"
    [] c = "chromium" -> "History" [] c = "firefox" -> "places.sqlite"
    [] c = "webcache" -> "WebCacheV01.dat" [] OTHER -> "other"
=============================================================================
