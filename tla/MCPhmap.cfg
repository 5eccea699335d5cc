\* phmap's parallel table alone: two threads, one key, a mutex with readers
SPECIFICATION LambdaSpec
CONSTANT Null = Null
VIEW View
INVARIANT LambdaIsProtected
