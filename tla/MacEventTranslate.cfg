CONSTANTS
    Chars = {47, 97, 98}
    MaxLen = 4
    FlagSets = {{"Created"}, {"Modified", "Removed"}, {"RootChanged", "Created"}}
SPECIFICATION Spec
INVARIANT TranslateMatchesSpec
