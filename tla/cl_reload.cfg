\* ConfigLoad: the spec 8 round trip on three setters that do not write
\* back what they accept: gz035 TE off, uart3's cts moved to its fun4 pin,
\* the rcc clock form on a system-level rcc.  Expected violated.
CONSTANTS
    Docs <- DocsReload
    Edits <- EditsReload
    MaxSets = 1
SPECIFICATION Spec
INVARIANT ReloadAgrees
